---------------------------- MODULE Spec2Model ----------------------------
(***************************************************************************)
(* Model of the PDM background service worker: the consolidated message   *)
(* listener and its rate limiter, the session state kept by                *)
(* background.ts, the IdentityManager's credential store and the           *)
(* NillionManager storage client with its localStorage fallback.           *)
(*                                                                         *)
(* The program state is gathered in one record, the "world" w, whose       *)
(* fields carry the names of the objects and fields of the source.  Every  *)
(* function of the source is an operator from a world to a result record   *)
(* [w, err, ret, calls]: the world it leaves, the error it throws (Null    *)
(* when it returns), its return value and the remote endpoints it called.  *)
(* Time is Date.now() in milliseconds.                                     *)
(***************************************************************************)
EXTENDS Integers, Sequences, FiniteSets, TLC

(***************************************************************************)
(* Program constants                                                       *)
(***************************************************************************)
MAX_REQUESTS == 50
WINDOW_MS == 60000
REQUEST_TIMEOUT == 30000
SHIM_TIMEOUT == 30000
SESSION_TIMEOUT == 15 * 60 * 1000
IDENTITY_SESSION_TIMEOUT == 24 * 60 * 60 * 1000
DEFAULT_RATE_LIMIT == [maxRequests |-> 100, windowMs |-> 60000]
DEFAULT_CONNECT_ACTIONS == {"ping", "get_identity", "store_data", "retrieve_data"}
DEFAULT_COLLECTION == "pdm_demo_collection"

(***************************************************************************)
(* Bounds of the model                                                     *)
(***************************************************************************)
\* arrivals of the router specification are drawn up to MaxSteps short steps
MaxSteps == 6
\* arrivals of the rate specification are drawn up to MaxRateSteps half windows
MaxRateSteps == 2
\* arrivals of the flood specification are drawn up to MaxFloodSteps half windows
MaxFloodSteps == 1
\* identifiers crypto.randomUUID() may mint in one behaviour
MaxIds == 2
\* the same, in a behaviour of the router specification
MaxRouterIds == 1
\* setups of the offscreen document started in one behaviour
MaxSetups == 3
\* calls of callOffscreenApi made in one behaviour
MaxCalls == 3
\* calls of window.PDM._sendMessage made in one behaviour
MaxShimCalls == 2
\* the clock of the tab advances by at most TickMs at a time, MaxTicks times
TickMs == 15000
MaxTicks == 4
\* operations of the storage client that can be suspended at the same time,
\* next to one initialize()
MaxFlights == 2
\* identifiers crypto.randomUUID() may mint in a behaviour of the ledger
\* specification
MaxLedgerIds == 3

ShortStep == SESSION_TIMEOUT \div 3
LongStep == SESSION_TIMEOUT + ShortStep
StartTime == ShortStep
MaxTime == StartTime + MaxSteps * ShortStep
HalfWindow == WINDOW_MS \div 2
MaxClock == MaxTicks * TickMs
MaxRateTime == StartTime + MaxRateSteps * HalfWindow
MaxFloodTime == StartTime + MaxFloodSteps * HalfWindow

(***************************************************************************)
(* Values                                                                  *)
(***************************************************************************)
Null == "null"
Absent == -1

Passwords == {"demo123", "wrong"}
Credentials == {[apiKey |-> "K", privateKey |-> "P"]}
NoCredentials == [apiKey |-> Null, privateKey |-> Null]
NoBlob == [pw |-> Null, plain |-> NoCredentials]
NoIdentitySession == [did |-> Null, expiresAt |-> 0]

Origins == {"https://a.example", "https://b.example"}
Senders == {"page", "popup", "extension_page", "no_url"}
RealDid == "did:nil:real"
DemoDidK == "did:nil:demo_K"
Dids == {RealDid, DemoDidK}
RemoteId == 0
\* the fields of a document payload: a title, and possibly fields of its own
\* named dataId, id and collectionId (as a document read back earlier has)
Payloads == {[title |-> "T", dataId |-> d, id |-> i, collectionId |-> c] :
               d \in {Absent, 1}, i \in {Absent, 1}, c \in {Null, "own"}}
PlainPayloads == {x \in Payloads : x.dataId = Absent /\ x.id = Absent
                                   /\ x.collectionId = Null}
NoItem == [dataId |-> Absent, collectionId |-> Null, id |-> Absent, title |-> Null]
Collections == {Null, "col1"}
DocIds == 1..MaxIds
Grantees == {"did:nil:app"}
PermissionSets == {<<"read", "write">>, <<>>}

UngatedActions == {"unlock", "lock", "is_unlocked"}
GatedActions == {"ping", "get_identity", "store_data", "retrieve_data", "delete_data",
                 "get_user_data", "grant_permission", "revoke_permission",
                 "list_permissions", "connect", "disconnect"}
Actions == UngatedActions \cup GatedActions
DataActions == {"get_identity", "store_data", "retrieve_data", "delete_data",
                "get_user_data", "grant_permission", "revoke_permission",
                "list_permissions"}
NoConfig == [present |-> FALSE, allowedActions |-> {},
             rateLimit |-> DEFAULT_RATE_LIMIT]

VARIABLES
  now,                 \* Date.now() at the last arrival
  sessionPassword,     \* background.ts: let sessionPassword
  sessionInitialized,  \* background.ts: let sessionInitialized
  lastActivityTime,    \* background.ts: let lastActivityTime
  requests,            \* RateLimiter.requests: origin -> timestamps
  allowedOrigins,      \* MessageHandler.allowedOrigins: origin -> config
  nm,                  \* NillionManager: credentials, userPrivateKey, userDid, demoMode
  sessionCache,        \* IdentityManager.sessionCache
  local,               \* chrome.storage.local
  session,             \* chrome.storage.session
  nextId,              \* identifiers minted so far by crypto.randomUUID()
  lastResp,            \* the response to the last message (observation)
  hist,                \* history: why the session is locked, whether its deadline passed
  off,                 \* background.ts: offscreenPromise, its setups, the offscreen document
  page,                \* one tab: the calls of window.PDM, the window's messages, the content script
  restoring,           \* background.ts: the restoreSessionState() of start-up has not returned
                       \* (pending), and what its chrome.storage.session.get reads (session)
  flight               \* nillion.ts: the operations of the storage client that are suspended
                       \* at an await, and what they hold in their local variables

vars == <<now, sessionPassword, sessionInitialized, lastActivityTime, requests,
          allowedOrigins, nm, sessionCache, local, session, nextId, lastResp, hist, off,
          page, restoring, flight>>

World == [sessionPassword |-> sessionPassword,
          sessionInitialized |-> sessionInitialized,
          lastActivityTime |-> lastActivityTime,
          requests |-> requests,
          allowedOrigins |-> allowedOrigins,
          nm |-> nm,
          sessionCache |-> sessionCache,
          local |-> local,
          session |-> session,
          nextId |-> nextId]

SetWorld(w) ==
  /\ sessionPassword' = w.sessionPassword
  /\ sessionInitialized' = w.sessionInitialized
  /\ lastActivityTime' = w.lastActivityTime
  /\ requests' = w.requests
  /\ allowedOrigins' = w.allowedOrigins
  /\ nm' = w.nm
  /\ sessionCache' = w.sessionCache
  /\ local' = w.local
  /\ session' = w.session
  /\ nextId' = w.nextId

\* const v = ...: the value v under the name the operator F gives it
Let(v, F(_)) == F(v)

\* results of the functions of the source
Ok(w, ret, calls) == [w |-> w, err |-> Null, ret |-> ret, calls |-> calls]
Throw(w, err, calls) == [w |-> w, err |-> err, ret |-> Null, calls |-> calls]

NewNillionManager == [credentials |-> NoCredentials, userPrivateKey |-> Null,
                      userDid |-> Null, demoMode |-> FALSE]
EmptyCache == [nillion_credentials |-> NoCredentials,
               current_session |-> NoIdentitySession]
EmptyLocal == [pdm_nillion_credentials |-> NoBlob,
               pdm_current_session |-> NoIdentitySession,
               pdm_demo_mode |-> FALSE,
               pdm_user_did |-> Null,
               pdm_origin_configs |-> [o \in Origins |-> NoConfig],
               pdm_demo_data |-> [d \in Dids |-> <<>>],
               pdm_permissions |-> [d \in Dids |-> <<>>]]
EmptySession == [pdm_session_active |-> FALSE, pdm_session_password |-> Null,
                 pdm_last_activity |-> Absent]
\* no restoreSessionState() is under way
NotRestoring == [pending |-> FALSE, session |-> EmptySession]
NoData == [password |-> Null, title |-> Null, dataId |-> Absent, id |-> Absent,
           metadata |-> [collectionId |-> Null], documentId |-> Absent,
           collectionId |-> Null, appDid |-> Null, permissions |-> <<>>,
           permissionId |-> Absent, hasRequestedActions |-> FALSE,
           requestedActions |-> {}, hasRateLimit |-> FALSE,
           rateLimit |-> DEFAULT_RATE_LIMIT]
\* no setup was started, no offscreen document exists, no call was made
Setups == 1..MaxSetups
Calls == 1..MaxCalls
NoOffscreen == [offscreenPromise |-> 0,
                made |-> 0,
                state |-> [p \in Setups |-> "none"],
                pc |-> [p \in Setups |-> "none"],
                timeout |-> [p \in Setups |-> FALSE],
                readyListener |-> [p \in Setups |-> FALSE],
                doc |-> "none",
                call |-> [c \in Calls |-> [pc |-> "idle", on |-> 0, err |-> Null]]]

\* a tab in which window.PDM was not called yet
ShimIds == 1..MaxShimCalls
NoCall == [state |-> "none", error |-> Null, timeout |-> Absent, listener |-> FALSE,
           mintedAt |-> Absent]
NoPending == [present |-> FALSE, timeout |-> Absent, port |-> "none",
              forwardedAt |-> Absent, posted |-> 0]
NoPage == [clock |-> 0,
           minted |-> 0,
           call |-> [i \in ShimIds |-> NoCall],
           window |-> {},
           pendingRequests |-> [i \in ShimIds |-> NoPending]]

NoResp == [origin |-> Null, action |-> Null, kind |-> "none", calls |-> {},
           work |-> FALSE, did |-> Null, allowedActions |-> {},
           wasUnlocked |-> FALSE, wasExpired |-> FALSE, lockedBy |-> "start",
           afterDeadline |-> FALSE, hadConfig |-> FALSE, inAllowed |-> FALSE,
           badPass |-> FALSE, data |-> NoData, net |-> TRUE, wasDemo |-> FALSE,
           retId |-> Absent, retList |-> <<>>, retDoc |-> NoItem,
           hadDoc |-> FALSE, sender |-> Null, pageOrigin |-> Null]

\* no operation of the storage client is suspended; returned, targeted and
\* migrated are history: the identifiers handed out by operations that
\* returned, with the key they wrote, the identifiers a delete or revoke was
\* started for, and whether listDataLocally has adopted a list
Slots == 1..MaxFlights
NoFlight == [op |-> "none", pc |-> "idle", key |-> Null, read |-> <<>>,
             data |-> NoData, id |-> Absent]
NoInitialize == [pc |-> "idle", demo |-> FALSE, did |-> Null]
NoFlights == [initialize |-> NoInitialize,
              ops |-> [s \in Slots |-> NoFlight],
              returned |-> {}, targeted |-> {}, migrated |-> FALSE]

(***************************************************************************)
(* IdentityManager (utils/identity.ts)                                     *)
(***************************************************************************)
\* AES-GCM under a PBKDF2 key: the ciphertext opens under the password it was
\* made with and under no other
encryptData(data, password) == [pw |-> password, plain |-> data]

decryptData(encryptedData, password) ==
  IF encryptedData.pw = password
    THEN [err |-> Null, ret |-> encryptedData.plain]
    ELSE [err |-> "OperationError", ret |-> NoCredentials]

\* secureStore('nillion_credentials', credentials, password)
storeNillionCredentials(w, credentials, password) ==
  [w EXCEPT !.local.pdm_nillion_credentials = encryptData(credentials, password),
            !.sessionCache.nillion_credentials = credentials]

\* secureRetrieve('nillion_credentials', password)
getNillionCredentials(w, password) ==
  IF w.sessionCache.nillion_credentials # NoCredentials
    THEN Ok(w, w.sessionCache.nillion_credentials, {})
  ELSE IF w.local.pdm_nillion_credentials = NoBlob
    THEN Ok(w, NoCredentials, {})
  ELSE Let(decryptData(w.local.pdm_nillion_credentials, password),
           LAMBDA d :
             IF d.err # Null
               THEN Throw(w, d.err, {})
               ELSE Ok([w EXCEPT !.sessionCache.nillion_credentials = d.ret], d.ret, {}))

\* secureStore('current_session', {did, timestamp, expiresAt})
createSession(w, did, t) ==
  LET sessionData == [did |-> did, expiresAt |-> t + IDENTITY_SESSION_TIMEOUT]
  IN [w EXCEPT !.local.pdm_current_session = sessionData,
               !.sessionCache.current_session = sessionData]

clearSession(w) ==
  [w EXCEPT !.local.pdm_current_session = NoIdentitySession,
            !.sessionCache.current_session = NoIdentitySession]

\* secureRetrieve('current_session'), then the expiry test
getCurrentSession(w, t) ==
  LET cached == w.sessionCache.current_session
      stored == w.local.pdm_current_session
      found == IF cached # NoIdentitySession THEN cached ELSE stored
      w1 == [w EXCEPT !.sessionCache.current_session = found]
  IN IF found = NoIdentitySession THEN Ok(w, NoIdentitySession, {})
     ELSE IF t > found.expiresAt THEN Ok(clearSession(w1), NoIdentitySession, {})
     ELSE Ok(w1, found, {})

getDID(w, t) ==
  Let(getCurrentSession(w, t), LAMBDA s : Ok(s.w, s.ret.did, {}))

(***************************************************************************)
(* NillionManager (utils/nillion.ts)                                       *)
(***************************************************************************)
\* `did:nil:demo_${apiKey.substring(0, 16)}`
DemoDid(credentials) == IF credentials.apiKey = "K" THEN DemoDidK ELSE Null

isInitialized(w) ==
  w.nm.credentials # NoCredentials /\ w.nm.userPrivateKey # Null

\* net: whether the call to the backend server made by this operation succeeds
initialize(w, password, net) ==
  Let(getNillionCredentials(w, password), LAMBDA g :
    IF g.err # Null THEN g
    ELSE IF g.ret = NoCredentials
      THEN Throw([g.w EXCEPT !.nm.credentials = g.ret], "CredentialsNotFound", {})
    ELSE
      Let([g.w EXCEPT !.nm.credentials = g.ret,
                      !.nm.userPrivateKey = g.ret.privateKey], LAMBDA w2 :
        IF w2.local.pdm_demo_mode
          THEN Ok([w2 EXCEPT !.nm.demoMode = TRUE,
                             !.nm.userDid = IF w2.local.pdm_user_did # Null
                                              THEN w2.local.pdm_user_did
                                              ELSE DemoDid(g.ret)],
                  Null, {})
        ELSE IF net
          THEN Ok([w2 EXCEPT !.nm.userDid = RealDid,
                             !.local.pdm_user_did = RealDid],
                  Null, {"/api/user/did"})
        ELSE Ok([w2 EXCEPT !.nm.demoMode = TRUE,
                           !.nm.userDid = DemoDid(g.ret),
                           !.local.pdm_demo_mode = TRUE,
                           !.local.pdm_user_did = DemoDid(g.ret)],
                Null, {"/api/user/did"})))

RECURSIVE SelectItems(_, _)
\* allData.filter(item => item.dataId !== dataId)
SelectItems(items, dataId) ==
  IF items = <<>> THEN <<>>
  ELSE IF Head(items).dataId # dataId
    THEN <<Head(items)>> \o SelectItems(Tail(items), dataId)
    ELSE SelectItems(Tail(items), dataId)

storeDataLocally(w, dataId, data, collectionId) ==
  LET newItem == [dataId |-> IF data.dataId # Absent THEN data.dataId ELSE dataId,
                  collectionId |-> IF data.collectionId # Null
                                     THEN data.collectionId ELSE collectionId,
                  id |-> IF data.id # Absent THEN data.id ELSE dataId,
                  title |-> data.title]
  IN [w EXCEPT !.local.pdm_demo_data[w.nm.userDid] = Append(@, newItem)]

\* the migration helper adopts the list kept under another DID when the
\* list of the current DID is empty
listDataLocally(w) ==
  LET own == w.local.pdm_demo_data[w.nm.userDid]
      others == {d \in Dids : d # w.nm.userDid}
  IN IF own # <<>> \/ others = {} THEN Ok(w, own, {})
     ELSE LET other == CHOOSE d \in others : TRUE
              moved == w.local.pdm_demo_data[other]
          IN Ok([w EXCEPT !.local.pdm_demo_data[w.nm.userDid] = moved,
                          !.local.pdm_demo_data[other] = <<>>],
                moved, {})

retrieveDataLocally(w, dataId) ==
  Let(listDataLocally(w), LAMBDA l :
    Let({i \in 1..Len(l.ret) : l.ret[i].dataId = dataId}, LAMBDA hits :
      IF hits = {} THEN Throw(l.w, "NotFound", {})
      ELSE Ok(l.w, l.ret[CHOOSE i \in hits : \A j \in hits : i <= j], {})))

deleteDataLocally(w, dataId) ==
  Ok([w EXCEPT !.local.pdm_demo_data[w.nm.userDid] = SelectItems(@, dataId)], Null, {})

\* storeData answering with a new id after a failed remote call but keeping
\* no local record
storeDataForgettingRecord(w, data, metadata, net) ==
  IF w.nm.userPrivateKey = Null THEN Throw(w, "NotInitialized", {})
  ELSE IF metadata.collectionId = Null THEN Throw(w, "InvalidArgument", {})
  ELSE IF net THEN Ok(w, RemoteId, {"/api/data/store"})
  ELSE Ok([w EXCEPT !.nm.demoMode = TRUE,
                    !.local.pdm_demo_mode = TRUE,
                    !.nextId = w.nextId + 1],
          w.nextId + 1, {"/api/data/store"})

storeData(w, data, metadata, net) ==
  IF w.nm.userPrivateKey = Null THEN Throw(w, "NotInitialized", {})
  ELSE IF metadata.collectionId = Null THEN Throw(w, "InvalidArgument", {})
  ELSE IF net THEN Ok(w, RemoteId, {"/api/data/store"})
  ELSE LET dataId == w.nextId + 1
           w1 == [w EXCEPT !.nm.demoMode = TRUE,
                           !.local.pdm_demo_mode = TRUE,
                           !.nextId = dataId]
       IN Ok(storeDataLocally(w1, dataId, data, metadata.collectionId), dataId,
             {"/api/data/store"})

retrieveData(w, dataId, collectionId, net) ==
  IF w.nm.userPrivateKey = Null THEN Throw(w, "NotInitialized", {})
  ELSE IF w.nm.demoMode THEN retrieveDataLocally(w, dataId)
  ELSE IF net THEN Ok(w, [dataId |-> dataId, collectionId |-> collectionId,
                          id |-> dataId, title |-> "T"], {"/api/data/:id"})
  ELSE LET r == retrieveDataLocally([w EXCEPT !.nm.demoMode = TRUE,
                                              !.local.pdm_demo_mode = TRUE], dataId)
       IN [r EXCEPT !.calls = {"/api/data/:id"}]

listUserData(w, net) ==
  IF w.nm.userPrivateKey = Null THEN Throw(w, "NotInitialized", {})
  ELSE IF w.nm.demoMode THEN listDataLocally(w)
  ELSE IF net THEN Ok(w, <<>>, {"/api/data/list"})
  ELSE LET r == listDataLocally([w EXCEPT !.nm.demoMode = TRUE,
                                          !.local.pdm_demo_mode = TRUE])
       IN [r EXCEPT !.calls = {"/api/data/list"}]

deleteData(w, dataId, collectionId, net) ==
  IF w.nm.userPrivateKey = Null THEN Throw(w, "NotInitialized", {})
  ELSE IF w.nm.demoMode THEN deleteDataLocally(w, dataId)
  ELSE IF net THEN Ok(w, Null, {"DELETE /api/data/:id"})
  ELSE LET r == deleteDataLocally([w EXCEPT !.nm.demoMode = TRUE,
                                            !.local.pdm_demo_mode = TRUE], dataId)
       IN [r EXCEPT !.calls = {"DELETE /api/data/:id"}]

grantPermission(w, dataId, collectionId, appDid, permissions, net) ==
  IF w.nm.userPrivateKey = Null THEN Throw(w, "NotInitialized", {})
  ELSE IF net THEN Ok(w, Null, {"/api/permissions/grant"})
  ELSE LET id == w.nextId + 1
           entry == [id |-> id, dataId |-> dataId, collectionId |-> collectionId,
                     appDid |-> appDid, permissions |-> permissions]
       IN Ok([w EXCEPT !.nm.demoMode = TRUE,
                       !.nextId = id,
                       !.local.pdm_permissions[w.nm.userDid] = Append(@, entry)],
             Null, {"/api/permissions/grant"})

RECURSIVE FilterPerms(_, _, _, _, _)
\* permissionId ? allPerms.filter(p => p.id !== permissionId)
\*              : allPerms.filter(p => !(same dataId, collectionId and appDid))
FilterPerms(allPerms, dataId, collectionId, appDid, permissionId) ==
  IF allPerms = <<>> THEN <<>>
  ELSE LET p == Head(allPerms)
           rest == FilterPerms(Tail(allPerms), dataId, collectionId, appDid, permissionId)
           keep == IF permissionId # Absent
                     THEN p.id # permissionId
                     ELSE ~(p.dataId = dataId /\ p.collectionId = collectionId
                            /\ p.appDid = appDid)
       IN IF keep THEN <<p>> \o rest ELSE rest

revokePermission(w, dataId, collectionId, appDid, permissionId, net) ==
  IF w.nm.userPrivateKey = Null THEN Throw(w, "NotInitialized", {})
  ELSE IF net THEN Ok(w, Null, {"/api/permissions/revoke"})
  ELSE Ok([w EXCEPT !.nm.demoMode = TRUE,
                    !.local.pdm_permissions[w.nm.userDid] =
                        FilterPerms(@, dataId, collectionId, appDid, permissionId)],
          Null, {"/api/permissions/revoke"})

listPermissions(w, net) ==
  IF w.nm.userPrivateKey = Null THEN Throw(w, "NotInitialized", {})
  ELSE IF w.nm.demoMode THEN Ok(w, w.local.pdm_permissions[w.nm.userDid], {})
  ELSE IF net THEN Ok(w, <<>>, {"/api/permissions/list"})
  ELSE Ok([w EXCEPT !.nm.demoMode = TRUE], w.local.pdm_permissions[w.nm.userDid],
          {"/api/permissions/list"})

(***************************************************************************)
(* background.ts: rate limiter and session                                 *)
(***************************************************************************)
RECURSIVE FilterWindow(_, _)
\* timestamps.filter(ts => now - ts < this.WINDOW_MS)
FilterWindow(timestamps, t) ==
  IF timestamps = <<>> THEN <<>>
  ELSE IF t - Head(timestamps) < WINDOW_MS
    THEN <<Head(timestamps)>> \o FilterWindow(Tail(timestamps), t)
    ELSE FilterWindow(Tail(timestamps), t)

\* isAllowed keeping a timestamp that is exactly one window old
isAllowedKeepingBoundary(reqs, origin, t) ==
  Let(SelectSeq(reqs[origin], LAMBDA ts : t - ts <= WINDOW_MS), LAMBDA kept :
    IF Len(kept) >= MAX_REQUESTS
      THEN [allowed |-> FALSE, requests |-> reqs]
      ELSE [allowed |-> TRUE,
            requests |-> [reqs EXCEPT ![origin] = Append(kept, t)]])

\* RateLimiter.isAllowed(origin) at Date.now() = t
isAllowed(reqs, origin, t) ==
  Let(FilterWindow(reqs[origin], t), LAMBDA validTimestamps :
    IF Len(validTimestamps) >= MAX_REQUESTS
      THEN [allowed |-> FALSE, requests |-> reqs]
      ELSE [allowed |-> TRUE,
            requests |-> [reqs EXCEPT ![origin] = Append(validTimestamps, t)]])

\* updateActivityTime leaving lastActivityTime as it is
updateActivityTimeKeeping(w, t) == w

updateActivityTime(w, t) == [w EXCEPT !.lastActivityTime = t]

isSessionExpired(w, t) == t - w.lastActivityTime > SESSION_TIMEOUT

saveSessionState(w) ==
  IF w.sessionPassword # Null /\ w.sessionInitialized
    THEN [w EXCEPT !.session = [pdm_session_active |-> TRUE,
                                pdm_session_password |-> w.sessionPassword,
                                pdm_last_activity |-> w.lastActivityTime]]
    ELSE w

lockSession(w) ==
  clearSession([w EXCEPT !.sessionPassword = Null,
                         !.sessionInitialized = FALSE,
                         !.session.pdm_session_active = FALSE,
                         !.session.pdm_session_password = Null])

initializeNillionSession(w, password, net, t) ==
  Let(initialize(w, password, net), LAMBDA i :
    IF i.err = Null
      THEN Let(saveSessionState([i.w EXCEPT !.sessionPassword = password,
                                            !.sessionInitialized = TRUE]),
               LAMBDA w1 :
                 Ok(IF w1.nm.userDid # Null
                      THEN createSession(w1, w1.nm.userDid, t) ELSE w1,
                    TRUE, i.calls))
      ELSE Ok([i.w EXCEPT !.sessionPassword = Null, !.sessionInitialized = FALSE],
              FALSE, i.calls))

\* restoreSessionState without the lockSession() of the stale branch
restoreSessionStateKeepingToken(w, stored, net, t) ==
  IF stored.pdm_session_active /\ stored.pdm_session_password # Null
    THEN IF stored.pdm_last_activity # Absent
              /\ t - stored.pdm_last_activity > SESSION_TIMEOUT
           THEN Ok(w, FALSE, {})
           ELSE initializeNillionSession(
                  IF stored.pdm_last_activity # Absent
                    THEN [w EXCEPT !.lastActivityTime = stored.pdm_last_activity]
                    ELSE w,
                  stored.pdm_session_password, net, t)
    ELSE Ok(w, FALSE, {})

\* stored is what chrome.storage.session.get answered; the call is issued when
\* restoreSessionState() is entered, the rest runs when the answer has come
restoreSessionState(w, stored, net, t) ==
  IF stored.pdm_session_active /\ stored.pdm_session_password # Null
    THEN IF stored.pdm_last_activity # Absent
              /\ t - stored.pdm_last_activity > SESSION_TIMEOUT
           THEN Ok(lockSession(w), FALSE, {})
           ELSE initializeNillionSession(
                  IF stored.pdm_last_activity # Absent
                    THEN [w EXCEPT !.lastActivityTime = stored.pdm_last_activity]
                    ELSE w,
                  stored.pdm_session_password, net, t)
    ELSE Ok(w, FALSE, {})

(***************************************************************************)
(* MessageHandler (utils/messaging.ts): the origin configurations          *)
(***************************************************************************)
\* saveOriginConfigs writes the whole map back under pdm_origin_configs
saveOriginConfigs(w) == [w EXCEPT !.local.pdm_origin_configs = w.allowedOrigins]

addAllowedOrigin(w, origin, allowedActions, hasRateLimit, rateLimit) ==
  saveOriginConfigs(
    [w EXCEPT !.allowedOrigins[origin] =
        [present |-> TRUE, allowedActions |-> allowedActions,
         rateLimit |-> IF hasRateLimit THEN rateLimit ELSE DEFAULT_RATE_LIMIT]])

removeAllowedOrigin(w, origin) ==
  saveOriginConfigs([w EXCEPT !.allowedOrigins[origin] = NoConfig])

isActionAllowed(w, origin, action) ==
  w.allowedOrigins[origin].present /\ action \in w.allowedOrigins[origin].allowedActions

handleConnect(w, origin, connectionData) ==
  Ok(addAllowedOrigin(w, origin,
                      IF connectionData.hasRequestedActions
                        THEN connectionData.requestedActions
                        ELSE DEFAULT_CONNECT_ACTIONS,
                      connectionData.hasRateLimit, connectionData.rateLimit),
     IF connectionData.hasRequestedActions
       THEN connectionData.requestedActions ELSE {"ping", "get_identity"},
     {})

handleDisconnect(w, origin) == Ok(removeAllowedOrigin(w, origin), Null, {})

(***************************************************************************)
(* background.ts: handlePDMMessage and the consolidated listener           *)
(***************************************************************************)
\* what handlePDMMessage resolves or rejects with: kind is "ok" or the error
Handled(w, kind, calls, work, did, allowedActions) ==
  [w |-> w, kind |-> kind, calls |-> calls, work |-> work, did |-> did,
   allowedActions |-> allowedActions]

\* a call of the storage client made by the switch: its error is rethrown
FromClient(r) ==
  Handled(r.w, IF r.err = Null THEN "ok" ELSE r.err, r.calls,
          r.err \notin {"NotInitialized", "InvalidArgument"}, Null, {})

LockedError(w) == Handled(w, "Locked", {}, FALSE, Null, {})

Dispatch(w, t, action, data, origin, net) ==
  CASE action = "ping" -> Handled(w, "ok", {}, FALSE, Null, {})
    [] action = "get_identity" ->
         IF w.nm.userDid # Null
           THEN Handled(w, "ok", {}, FALSE, w.nm.userDid, {})
           ELSE Let(getDID(w, t), LAMBDA g : Handled(g.w, "ok", {}, FALSE, g.ret, {}))
    [] action = "store_data" ->
         IF ~isInitialized(w) THEN LockedError(w)
         ELSE FromClient(storeData(w, data, data.metadata, net))
    [] action = "retrieve_data" ->
         IF ~isInitialized(w) THEN LockedError(w)
         ELSE FromClient(retrieveData(w, data.documentId,
                IF data.collectionId # Null THEN data.collectionId
                ELSE DEFAULT_COLLECTION, net))
    [] action = "delete_data" ->
         IF ~isInitialized(w) THEN LockedError(w)
         ELSE FromClient(deleteData(w, data.documentId,
                IF data.collectionId # Null THEN data.collectionId
                ELSE DEFAULT_COLLECTION, net))
    [] action = "get_user_data" ->
         IF ~isInitialized(w) THEN LockedError(w)
         ELSE FromClient(listUserData(w, net))
    [] action = "grant_permission" ->
         FromClient(grantPermission(w, data.documentId, data.collectionId,
                                    data.appDid, data.permissions, net))
    [] action = "revoke_permission" ->
         FromClient(revokePermission(w, data.documentId, data.collectionId,
                                     data.appDid, data.permissionId, net))
    [] action = "list_permissions" ->
         IF ~isInitialized(w) THEN LockedError(w)
         ELSE FromClient(listPermissions(w, net))
    [] action = "connect" ->
         Let(handleConnect(w, origin, data),
             LAMBDA c : Handled(c.w, "ok", {}, FALSE, Null, c.ret))
    [] action = "disconnect" ->
         Handled(handleDisconnect(w, origin).w, "ok", {}, FALSE, Null, {})
    [] action = "unlock" ->
         IF data.password = Null THEN Handled(w, "PasswordRequired", {}, FALSE, Null, {})
         ELSE Let(initializeNillionSession(w, data.password, net, t), LAMBDA u :
                IF ~u.ret THEN Handled(u.w, "FailedToUnlock", u.calls, FALSE, Null, {})
                ELSE Handled(saveSessionState(updateActivityTime(u.w, t)), "ok",
                             u.calls, FALSE, Null, {}))
    [] action = "lock" -> Handled(lockSession(w), "ok", {}, FALSE, Null, {})
    [] action = "is_unlocked" -> Handled(w, "ok", {}, FALSE, Null, {})
    [] OTHER -> Handled(w, "UnknownAction", {}, FALSE, Null, {})

handlePDMMessage(w, t, action, data, origin, net) ==
  IF action # "unlock" /\ action # "is_unlocked" /\ w.sessionInitialized
       /\ isSessionExpired(w, t)
    THEN Handled(lockSession(w), "SessionExpired", {}, FALSE, Null, {})
    ELSE Dispatch(IF w.sessionInitialized
                    THEN saveSessionState(updateActivityTime(w, t)) ELSE w,
                  t, action, data, origin, net)

\* the observation of one message: the response and the state it met
Observe(w, h, t, origin, action, data, kind, calls, work, did, allowedActions) ==
  [origin |-> origin, action |-> action, kind |-> kind, calls |-> calls,
   work |-> work, did |-> did, allowedActions |-> allowedActions,
   wasUnlocked |-> w.sessionInitialized,
   wasExpired |-> isSessionExpired(w, t),
   lockedBy |-> h.lockedBy,
   afterDeadline |-> h.deadlinePassed \/ (w.sessionInitialized /\ isSessionExpired(w, t)),
   hadConfig |-> w.allowedOrigins[origin].present,
   inAllowed |-> isActionAllowed(w, origin, action),
   badPass |-> action = "unlock" /\ data.password # w.local.pdm_nillion_credentials.pw]

\* onMessage with the activity charged before the rate limiter is asked
onMessageChargingActivity(w, h, t, sender, origin, action, data, net) ==
  IF sender \in {"no_url", "extension_page"}
    THEN [w |-> w, resp |-> Observe(w, h, t, origin, action, data, "dropped", {},
                                    FALSE, Null, {})]
  ELSE Let(isAllowed(w.requests, origin, t), LAMBDA lim :
         IF ~lim.allowed
           THEN [w |-> IF w.sessionInitialized
                         THEN saveSessionState(updateActivityTime(w, t)) ELSE w,
                 resp |-> Observe(w, h, t, origin, action, data,
                                  "RateLimited", {}, FALSE, Null, {})]
           ELSE Let(handlePDMMessage([w EXCEPT !.requests = lim.requests],
                                     t, action, data, origin, net),
                    LAMBDA r :
                      [w |-> r.w,
                       resp |-> Observe(w, h, t, origin, action, data, r.kind, r.calls,
                                        r.work, r.did, r.allowedActions)]))

\* onMessage asking the rate limiter before it validates the sender
onMessageValidatingLate(w, h, t, sender, origin, action, data, net) ==
  Let(isAllowed(w.requests, origin, t), LAMBDA lim :
    IF ~lim.allowed
      THEN [w |-> w, resp |-> Observe(w, h, t, origin, action, data,
                                      "RateLimited", {}, FALSE, Null, {})]
    ELSE IF sender \in {"no_url", "extension_page"}
      THEN [w |-> [w EXCEPT !.requests = lim.requests],
            resp |-> Observe(w, h, t, origin, action, data, "dropped", {},
                             FALSE, Null, {})]
    ELSE Let(handlePDMMessage([w EXCEPT !.requests = lim.requests],
                              t, action, data, origin, net),
             LAMBDA r :
               [w |-> r.w,
                resp |-> Observe(w, h, t, origin, action, data, r.kind, r.calls,
                                 r.work, r.did, r.allowedActions)]))

\* chrome.runtime.onMessage listener, request.type = 'PDM_MESSAGE'
onMessage(w, h, t, sender, origin, action, data, net) ==
  IF sender \in {"no_url", "extension_page"}
    THEN [w |-> w, resp |-> Observe(w, h, t, origin, action, data, "dropped", {},
                                    FALSE, Null, {})]
  ELSE Let(isAllowed(w.requests, origin, t), LAMBDA lim :
         IF ~lim.allowed
           THEN [w |-> w, resp |-> Observe(w, h, t, origin, action, data,
                                           "RateLimited", {}, FALSE, Null, {})]
           ELSE Let(handlePDMMessage([w EXCEPT !.requests = lim.requests],
                                     t, action, data, origin, net),
                    LAMBDA r :
                      [w |-> r.w,
                       resp |-> Observe(w, h, t, origin, action, data, r.kind, r.calls,
                                        r.work, r.did, r.allowedActions)]))

\* the history after a message answered with resp
NextHist(w, h, t, resp) ==
  [lockedBy |->
     IF resp.kind = "SessionExpired" THEN "expiry"
     ELSE IF resp.action = "unlock" /\ resp.kind = "ok" THEN "none"
     ELSE IF resp.action = "unlock" /\ resp.kind = "FailedToUnlock" THEN "failed_unlock"
     ELSE IF resp.action = "lock" /\ resp.kind = "ok" THEN "lock"
     ELSE h.lockedBy,
   deadlinePassed |->
     IF resp.action = "unlock" /\ resp.kind = "ok" THEN FALSE
     ELSE resp.afterDeadline]

(***************************************************************************)
(* Inputs                                                                  *)
(***************************************************************************)
RateLimits == {[maxRequests |-> 1, windowMs |-> 60000]}

\* the payloads of the storage-client specification
DataFor(action) ==
  CASE action = "unlock" -> {[NoData EXCEPT !.password = p] : p \in Passwords \cup {Null}}
    [] action = "store_data" ->
         {[NoData EXCEPT !.title = x.title, !.dataId = x.dataId, !.id = x.id,
                         !.collectionId = x.collectionId,
                         !.metadata = [collectionId |-> c]] :
            x \in Payloads, c \in Collections}
    [] action \in {"retrieve_data", "delete_data"} ->
         {[NoData EXCEPT !.documentId = d, !.collectionId = c] :
            d \in DocIds, c \in Collections}
    [] action = "grant_permission" ->
         {x \in {[NoData EXCEPT !.documentId = d, !.collectionId = c, !.appDid = g,
                               !.permissions = ps] :
                  d \in DocIds, c \in Collections, g \in Grantees,
                  ps \in PermissionSets} :
            (x.collectionId = Null \/ x.permissions = <<>>)
              => /\ x.documentId = 1
                 /\ (x.collectionId # Null \/ x.permissions # <<>>)}
    [] action = "revoke_permission" ->
         {x \in {[NoData EXCEPT !.documentId = d, !.collectionId = c, !.appDid = g,
                               !.permissionId = i] :
                  d \in DocIds, c \in Collections, g \in Grantees,
                  i \in DocIds \cup {Absent}} :
            x.collectionId = Null => (x.documentId = 1 /\ x.permissionId = Absent)}
    [] action = "connect" ->
         {NoData, [NoData EXCEPT !.hasRequestedActions = TRUE,
                                 !.requestedActions = {"ping"}]}
         \cup {[NoData EXCEPT !.hasRateLimit = TRUE, !.rateLimit = rl] : rl \in RateLimits}
    [] OTHER -> {NoData}

\* the payloads of the router specification: one document, one collection
RouterData(action) ==
  CASE action = "unlock" -> {[NoData EXCEPT !.password = p] : p \in Passwords}
    [] action = "store_data" ->
         {d \in DataFor(action) : /\ d.metadata.collectionId = "col1"
                                  /\ \E x \in PlainPayloads :
                                       /\ d.dataId = x.dataId
                                       /\ d.id = x.id
                                       /\ d.collectionId = x.collectionId}
    [] action \in {"retrieve_data", "delete_data", "grant_permission",
                   "revoke_permission"} ->
         {d \in DataFor(action) : /\ d.documentId \in {Absent, 1}
                                  /\ d.collectionId = "col1"
                                  /\ d.permissions # <<"read", "write">> =>
                                       action # "grant_permission"
                                  /\ d.permissionId = Absent}
    [] OTHER -> DataFor(action)

(***************************************************************************)
(* Initial state: a fresh installation, the service worker just started    *)
(***************************************************************************)
Init ==
  /\ now = StartTime
  /\ sessionPassword = Null
  /\ sessionInitialized = FALSE
  /\ lastActivityTime = StartTime
  /\ requests = [o \in Origins |-> <<>>]
  /\ allowedOrigins = [o \in Origins |-> NoConfig]
  /\ nm = NewNillionManager
  /\ sessionCache = EmptyCache
  /\ local = EmptyLocal
  /\ session = EmptySession
  /\ nextId = 0
  /\ lastResp = NoResp
  /\ hist = [lockedBy |-> "start", deadlinePassed |-> FALSE]
  /\ off = NoOffscreen
  /\ page = NoPage
  /\ restoring = NotRestoring
  /\ flight = NoFlights

(***************************************************************************)
(* Actions                                                                 *)
(***************************************************************************)
\* a PDM_MESSAGE with the given action arrives dt after the previous arrival
Arrive(action, steps, maxTime, senders, origins, datas, nets, maxIds) ==
  \E dt \in steps, sender \in senders, origin \in origins,
     data \in datas, net \in nets :
    /\ now + dt <= maxTime
    /\ \E r \in {onMessage(World, hist, now + dt, sender, origin, action, data, net)} :
          /\ r.w.nextId <= maxIds
          /\ now' = now + dt
          /\ SetWorld(r.w)
          /\ lastResp' = [f \in DOMAIN r.resp \cup {"sender", "data"} |->
                            IF f = "sender" THEN sender
                            ELSE IF f = "data" THEN data ELSE r.resp[f]]
          /\ hist' = NextHist(World, hist, now + dt, r.resp)
          /\ UNCHANGED <<off, page, restoring, flight>>

\* STORE_CREDENTIALS from the credential-entry form
StoreCredentialsWith(passwords) ==
  \E credentials \in Credentials, password \in passwords :
    /\ SetWorld(storeNillionCredentials(World, credentials, password))
    /\ lastResp' = NoResp
    /\ UNCHANGED <<now, hist, off, page, restoring, flight>>

\* the service worker is stopped and started again: module state is built anew,
\* chrome.storage.local and chrome.storage.session are kept, and
\* restoreSessionState() is called without being awaited
Restart ==
  \E dt \in {0, LongStep} :
    /\ now + dt <= MaxTime
    /\ now' = now + dt
    /\ SetWorld([World EXCEPT !.sessionPassword = Null,
                              !.sessionInitialized = FALSE,
                              !.lastActivityTime = now + dt,
                              !.requests = [o \in Origins |-> <<>>],
                              !.allowedOrigins = local.pdm_origin_configs,
                              !.nm = NewNillionManager,
                              !.sessionCache = EmptyCache])
    /\ restoring' = [pending |-> TRUE, session |-> session]
    /\ lastResp' = [NoResp EXCEPT !.action = "restart"]
    /\ hist' = [hist EXCEPT !.lockedBy = "start"]
    /\ off' = [NoOffscreen EXCEPT !.doc = off.doc]
    /\ UNCHANGED <<page, flight>>

\* what was read is a restore token whose last activity is more than 15 minutes
\* before t
StaleToken(stored, t) ==
  /\ stored.pdm_session_active
  /\ stored.pdm_session_password # Null
  /\ stored.pdm_last_activity # Absent
  /\ t - stored.pdm_last_activity > SESSION_TIMEOUT

\* the chrome.storage.session.get of the restoreSessionState() called at
\* start-up has answered: restoreSessionState() runs to its end
RestoreSessionState ==
  \E net \in BOOLEAN :
    /\ restoring.pending
    /\ \E r \in {restoreSessionState(World, restoring.session, net, now)} :
          /\ SetWorld(r.w)
          /\ restoring' = NotRestoring
          /\ lastResp' = [NoResp EXCEPT !.action = "restore",
                                        !.kind = IF r.ret THEN "ok" ELSE "not restored",
                                        !.wasExpired = StaleToken(restoring.session, now),
                                        !.wasUnlocked = sessionInitialized]
          /\ hist' = [hist EXCEPT !.lockedBy =
                        IF r.ret THEN "none"
                        ELSE IF sessionInitialized /\ ~r.w.sessionInitialized THEN "start"
                        ELSE hist.lockedBy]
          /\ UNCHANGED <<now, off, page, flight>>

StoreCredentials == StoreCredentialsWith(Passwords)

SlowSteps == {ShortStep, LongStep}
RouterOrigins == {"https://a.example"}
Route(action) ==
  Arrive(action, SlowSteps, MaxTime, {"page"}, RouterOrigins, RouterData(action),
         BOOLEAN, MaxRouterIds)

Ping == Route("ping")
GetIdentity == Route("get_identity")
StoreData == Route("store_data")
RetrieveData == Route("retrieve_data")
DeleteData == Route("delete_data")
GetUserData == Route("get_user_data")
GrantPermission == Route("grant_permission")
RevokePermission == Route("revoke_permission")
ListPermissions == Route("list_permissions")
Connect == Route("connect")
Disconnect == Route("disconnect")
Unlock == Route("unlock")
Lock == Route("lock")
IsUnlocked == Route("is_unlocked")

Next ==
  \/ StoreCredentials
  \/ Ping
  \/ GetIdentity
  \/ StoreData
  \/ RetrieveData
  \/ DeleteData
  \/ GetUserData
  \/ GrantPermission
  \/ RevokePermission
  \/ ListPermissions
  \/ Connect
  \/ Disconnect
  \/ Unlock
  \/ Lock
  \/ IsUnlocked

Spec == Init /\ [][Next]_vars

(***************************************************************************)
(* The restart specification: the service worker is stopped and started     *)
(* again between requests of one origin                                     *)
(***************************************************************************)
\* a message that arrives minutes after the start finds the start-up restore
\* finished
RestartRoute(action) ==
  /\ ~restoring.pending
  /\ Arrive(action, SlowSteps, MaxTime, {"page"}, RouterOrigins,
            {d \in RouterData(action) : d.password \in {Null, "demo123"}}, BOOLEAN, 0)

RestartStoreCredentials == StoreCredentialsWith({"demo123"})
RestartUnlock == RestartRoute("unlock")
RestartLock == RestartRoute("lock")
RestartGetIdentity == RestartRoute("get_identity")
RestartGetUserData == RestartRoute("get_user_data")

\* the message that woke the service worker: it is handled right after the
\* start, while restoreSessionState() has not returned
RestartWakingMessage ==
  /\ restoring.pending
  /\ lastResp.action = "restart"
  /\ \E action \in {"get_user_data", "get_identity", "unlock", "lock"} :
       Arrive(action, {0}, MaxTime, {"page"}, RouterOrigins,
              {d \in RouterData(action) : d.password \in {Null, "demo123"}}, BOOLEAN, 0)

RestartNext ==
  \/ RestartStoreCredentials
  \/ RestartUnlock
  \/ RestartLock
  \/ RestartGetIdentity
  \/ RestartGetUserData
  \/ RestartWakingMessage
  \/ Restart
  \/ RestoreSessionState

SpecRestart == Init /\ [][RestartNext]_vars

(***************************************************************************)
(* The rate specification: one origin sends connect and ping as fast as it *)
(* likes (several in one millisecond, half a window or a window apart)     *)
(***************************************************************************)
FastSteps == {0, HalfWindow, WINDOW_MS}
RateData(action) ==
  IF action = "connect" THEN {d \in DataFor("connect") : ~d.hasRequestedActions}
  ELSE {NoData}
RateRoute(action) ==
  Arrive(action, FastSteps, MaxRateTime, {"page"}, RouterOrigins, RateData(action),
         {TRUE}, 0)

RatePing == RateRoute("ping")
RateConnect == RateRoute("connect")

RateNext == RatePing \/ RateConnect

SpecRate == Init /\ [][RateNext]_vars

(***************************************************************************)
(* The flood specification: credentials are stored, the session is         *)
(* unlocked and locked, and one origin sends requests in bursts            *)
(***************************************************************************)
FloodSteps == {0, HalfWindow}
FloodRoute(action) ==
  Arrive(action, FloodSteps, MaxFloodTime, {"page"}, RouterOrigins,
         {d \in RouterData(action) : d.password \in {Null, "demo123"}}, {TRUE}, 0)

FloodStoreCredentials == StoreCredentialsWith({"demo123"})
FloodUnlock == FloodRoute("unlock")
FloodPing == FloodRoute("ping")
FloodLock == FloodRoute("lock")

FloodNext == FloodStoreCredentials \/ FloodUnlock \/ FloodPing \/ FloodLock

SpecFlood == Init /\ [][FloodNext]_vars

(***************************************************************************)
(* The storage-client specification: the operations of NillionManager,     *)
(* called in any order, over successive processes                          *)
(***************************************************************************)
\* the observation of one operation of the storage client
ClientResp(op, data, net, r) ==
  [NoResp EXCEPT !.action = op,
                 !.kind = IF r.err = Null THEN "ok" ELSE r.err,
                 !.calls = r.calls,
                 !.work = r.err \notin {"NotInitialized", "InvalidArgument"},
                 !.data = data,
                 !.net = net,
                 !.wasDemo = nm.demoMode,
                 !.retId = IF op = "storeData" /\ r.err = Null THEN r.ret ELSE Absent,
                 !.retList = IF op \in {"listUserData", "listPermissions"}
                                /\ r.err = Null THEN r.ret ELSE <<>>,
                 !.retDoc = IF op = "retrieveData" /\ r.err = Null
                              THEN r.ret ELSE NoItem,
                 !.hadDoc = /\ op = "deleteData"
                            /\ r.err = Null
                            /\ \E i \in DOMAIN local.pdm_demo_data[nm.userDid] :
                                 local.pdm_demo_data[nm.userDid][i].dataId
                                   = data.documentId]

ClientReturn(op, data, net, r) ==
  /\ r.w.nextId <= MaxIds
  /\ SetWorld(r.w)
  /\ lastResp' = ClientResp(op, data, net, r)
  /\ UNCHANGED <<now, hist, off, page, restoring, flight>>

ClientStoreCredentials == StoreCredentialsWith({"demo123"})

ClientInitialize ==
  \E password \in Passwords, net \in BOOLEAN :
    ClientReturn("initialize", NoData, net, initialize(World, password, net))

\* a payload can carry the dataId or id of a document only once that
\* identifier has been handed out
ClientStoreData ==
  \E data \in DataFor("store_data"), net \in BOOLEAN :
    /\ data.dataId <= nextId
    /\ data.id <= nextId
    /\ ClientReturn("storeData", data, net, storeData(World, data, data.metadata, net))

ClientRetrieveData ==
  \E data \in DataFor("retrieve_data"), net \in BOOLEAN :
    /\ data.collectionId # Null
    /\ ClientReturn("retrieveData", data, net,
                    retrieveData(World, data.documentId, data.collectionId, net))

ClientListUserData ==
  \E net \in BOOLEAN : ClientReturn("listUserData", NoData, net, listUserData(World, net))

ClientDeleteData ==
  \E data \in DataFor("delete_data"), net \in BOOLEAN :
    /\ data.collectionId # Null
    /\ ClientReturn("deleteData", data, net,
                    deleteData(World, data.documentId, data.collectionId, net))

ClientGrantPermission ==
  \E data \in DataFor("grant_permission"), net \in BOOLEAN :
    ClientReturn("grantPermission", data, net,
                 grantPermission(World, data.documentId, data.collectionId,
                                 data.appDid, data.permissions, net))

ClientRevokePermission ==
  \E data \in DataFor("revoke_permission"), net \in BOOLEAN :
    ClientReturn("revokePermission", data, net,
                 revokePermission(World, data.documentId, data.collectionId,
                                  data.appDid, data.permissionId, net))

ClientListPermissions ==
  \E net \in BOOLEAN : ClientReturn("listPermissions", NoData, net, listPermissions(World, net))

\* the process ends and a new one starts: the singletons are constructed anew,
\* chrome.storage.local is kept
NewProcess ==
  /\ nm' = NewNillionManager
  /\ sessionCache' = EmptyCache
  /\ lastResp' = [NoResp EXCEPT !.action = "new_process"]
  /\ off' = [NoOffscreen EXCEPT !.doc = off.doc]
  /\ UNCHANGED <<page, restoring, flight>>
  /\ UNCHANGED <<now, sessionPassword, sessionInitialized, lastActivityTime, requests,
                 allowedOrigins, local, session, nextId, hist>>

ClientNext ==
  \/ ClientStoreCredentials
  \/ ClientInitialize
  \/ ClientStoreData
  \/ ClientRetrieveData
  \/ ClientListUserData
  \/ ClientDeleteData
  \/ ClientGrantPermission
  \/ ClientRevokePermission
  \/ ClientListPermissions
  \/ NewProcess

SpecClient == Init /\ [][ClientNext]_vars

(***************************************************************************)
(* The router with every kind of sender: a page's content script, the      *)
(* popup, another page of the extension, a sender without URL              *)
(***************************************************************************)
SenderRoute(action) ==
  Arrive(action, SlowSteps, MaxTime, Senders, RouterOrigins,
         {d \in RouterData(action) : d.password \in {Null, "demo123"}}, {TRUE}, 0)

SenderStoreCredentials == StoreCredentialsWith({"demo123"})
SenderUnlock == SenderRoute("unlock")
SenderLock == SenderRoute("lock")
SenderPing == SenderRoute("ping")
SenderConnect == SenderRoute("connect")

SenderNext ==
  \/ SenderStoreCredentials
  \/ SenderUnlock
  \/ SenderLock
  \/ SenderPing
  \/ SenderConnect

SpecSender == Init /\ [][SenderNext]_vars

(***************************************************************************)
(* The offscreen document: setupOffscreenDocument and callOffscreenApi.    *)
(* A setup is the promise one call of setupOffscreenDocument creates; pc   *)
(* is the await its executor is stopped at.  The offscreen document is     *)
(* "none", "loading" (created, its script has not run), "listening" (its   *)
(* script installed its message listener) or "ready" (it has also sent     *)
(* OFFSCREEN_READY).                                                       *)
(***************************************************************************)
\* resolve() or reject() of setup p, followed by the callback of
\* offscreenPromise.finally; settling a settled promise does nothing
Settle(o, p, outcome) ==
  IF o.state[p] = "pending"
    THEN [o EXCEPT !.state[p] = outcome, !.offscreenPromise = 0]
    ELSE o

\* the body of setupOffscreenDocument up to the first await of its executor;
\* ret is the promise returned
setupOffscreenDocument(o) ==
  IF o.offscreenPromise # 0 THEN [o |-> o, ret |-> o.offscreenPromise]
  ELSE [o |-> [o EXCEPT !.offscreenPromise = o.made + 1,
                        !.made = o.made + 1,
                        !.state[o.made + 1] = "pending",
                        !.pc[o.made + 1] = "hasOffscreenDocument",
                        !.timeout[o.made + 1] = TRUE],
        ret |-> o.made + 1]

\* callOffscreenApi up to `await setupOffscreenDocument()`
callOffscreenApi(o, c) ==
  Let(setupOffscreenDocument(o),
      LAMBDA r : [r.o EXCEPT !.call[c] = [pc |-> "setup", on |-> r.ret, err |-> Null]])

\* the catch block of the executor: clearTimeout(timeout); reject(error)
Catch(o, p) ==
  Settle([o EXCEPT !.timeout[p] = FALSE, !.pc[p] = "done"], p, "failed")

\* the executor from the registration of readyListener to the await of
\* chrome.offscreen.createDocument
Create(o, p) ==
  [o EXCEPT !.readyListener[p] = TRUE, !.pc[p] = "createDocument"]

OffscreenStep(o) ==
  /\ off' = o
  /\ UNCHANGED <<now, sessionPassword, sessionInitialized, lastActivityTime, requests,
                 allowedOrigins, nm, sessionCache, local, session, nextId, lastResp,
                 hist, page, restoring, flight>>

\* a caller in the background calls callOffscreenApi
CallOffscreenApi ==
  \E c \in Calls :
    /\ off.call[c].pc = "idle"
    /\ \A b \in Calls : b < c => off.call[b].pc # "idle"
    /\ off.offscreenPromise # 0 \/ off.made < MaxSetups
    /\ OffscreenStep(callOffscreenApi(off, c))

\* hasOffscreenDocument() answers
HasOffscreenDocumentAnswers ==
  \E p \in Setups :
    /\ off.pc[p] = "hasOffscreenDocument"
    /\ OffscreenStep(IF off.doc # "none"
                       THEN [off EXCEPT !.pc[p] = "PING_OFFSCREEN"]
                       ELSE Create(off, p))

\* sendMessage({type: 'PING_OFFSCREEN'}) settles: a document whose listeners
\* are installed answers, otherwise the send is rejected
PingAnswers ==
  \E p \in Setups :
    /\ off.pc[p] = "PING_OFFSCREEN"
    /\ OffscreenStep(IF off.doc \in {"listening", "ready"}
                       THEN Settle([off EXCEPT !.timeout[p] = FALSE, !.pc[p] = "done"],
                                   p, "resolved")
                       ELSE [off EXCEPT !.pc[p] = "closeDocument"])

\* chrome.offscreen.closeDocument() settles: it closes the document, and is
\* rejected when there is none
CloseDocumentSettles ==
  \E p \in Setups :
    /\ off.pc[p] = "closeDocument"
    /\ OffscreenStep(IF off.doc # "none"
                       THEN Create([off EXCEPT !.doc = "none"], p)
                       ELSE Catch(off, p))

\* chrome.offscreen.createDocument() settles: it is rejected when the
\* extension already has an offscreen document
CreateDocumentSettles ==
  \E p \in Setups :
    /\ off.pc[p] = "createDocument"
    /\ OffscreenStep(IF off.doc = "none"
                       THEN [off EXCEPT !.doc = "loading", !.pc[p] = "done"]
                       ELSE Catch(off, p))

\* the script of the offscreen document runs: it installs its message
\* listener and schedules sendReadyMessage
OffscreenScriptRuns ==
  /\ off.doc = "loading"
  /\ OffscreenStep([off EXCEPT !.doc = "listening"])

\* sendReadyMessage sends OFFSCREEN_READY; every registered readyListener
\* clears its timeout, removes itself and resolves
OffscreenReady ==
  /\ off.doc = "listening"
  /\ OffscreenStep(
       [off EXCEPT !.doc = "ready",
                   !.timeout = [p \in Setups |-> off.timeout[p] /\ ~off.readyListener[p]],
                   !.readyListener = [p \in Setups |-> FALSE],
                   !.state = [p \in Setups |->
                                IF off.readyListener[p] /\ off.state[p] = "pending"
                                  THEN "resolved" ELSE off.state[p]],
                   !.offscreenPromise =
                      IF \E p \in Setups : off.readyListener[p] /\ off.state[p] = "pending"
                        THEN 0 ELSE off.offscreenPromise])

\* the 10 second timer of a setup fires
SetupTimeout ==
  \E p \in Setups :
    /\ off.timeout[p]
    /\ OffscreenStep(Settle([off EXCEPT !.timeout[p] = FALSE], p, "timed out"))

\* callOffscreenApi continues after `await setupOffscreenDocument()`: it
\* sends OFFSCREEN_API_CALL, or is rejected with the error of the setup
SetupAwaited ==
  \E c \in Calls :
    /\ off.call[c].pc = "setup"
    /\ off.state[off.call[c].on] # "pending"
    /\ OffscreenStep(IF off.state[off.call[c].on] = "resolved"
                       THEN [off EXCEPT !.call[c].pc = "OFFSCREEN_API_CALL"]
                       ELSE [off EXCEPT !.call[c].pc = "rejected",
                                        !.call[c].err = off.state[off.call[c].on]])

\* the callback of sendMessage({type: 'OFFSCREEN_API_CALL'}) runs
ApiCallAnswered ==
  \E c \in Calls, success \in BOOLEAN :
    /\ off.call[c].pc = "OFFSCREEN_API_CALL"
    /\ OffscreenStep(IF off.doc \notin {"listening", "ready"}
                       THEN [off EXCEPT !.call[c].pc = "rejected",
                                        !.call[c].err = "lastError"]
                       ELSE IF success
                         THEN [off EXCEPT !.call[c].pc = "resolved"]
                         ELSE [off EXCEPT !.call[c].pc = "rejected",
                                          !.call[c].err = "response.error"])

OffscreenNext ==
  \/ CallOffscreenApi
  \/ HasOffscreenDocumentAnswers
  \/ PingAnswers
  \/ CloseDocumentSettles
  \/ CreateDocumentSettles
  \/ OffscreenScriptRuns
  \/ OffscreenReady
  \/ SetupTimeout
  \/ SetupAwaited
  \/ ApiCallAnswered

SpecOffscreen == Init /\ [][OffscreenNext]_vars

(***************************************************************************)
(* One tab: window.PDM._sendMessage in the page, the window's message      *)
(* queue and the content script that relays to the background.  The ids    *)
(* _sendMessage mints are distinct; page.clock is the time in the tab.     *)
(***************************************************************************)
\* window.postMessage({type: 'PDM_RESPONSE', id, data | error, timestamp})
PostResponse(pg, id, error) ==
  [pg EXCEPT !.window = @ \cup {[type |-> "PDM_RESPONSE", id |-> id, error |-> error]},
             !.pendingRequests[id].posted = @ + 1]

sendResponseToPage(pg, id) == PostResponse(pg, id, Null)

sendErrorToPage(pg, id, error) == PostResponse(pg, id, error)

\* clearTimeout(pending.timeout); this.pendingRequests.delete(messageId)
DeletePending(pg, id) ==
  [pg EXCEPT !.pendingRequests[id].present = FALSE,
             !.pendingRequests[id].timeout = Absent]

\* forwardToBackground up to chrome.runtime.sendMessage
forwardToBackground(pg, id) ==
  [pg EXCEPT !.pendingRequests[id].present = TRUE,
             !.pendingRequests[id].timeout = pg.clock + REQUEST_TIMEOUT,
             !.pendingRequests[id].port = "open",
             !.pendingRequests[id].forwardedAt = pg.clock]

\* the callback answering the page without looking up the pending request
sendMessageCallbackUnguarded(pg, id, response) ==
  IF response.kind = "lastError"
    THEN sendErrorToPage(DeletePending(pg, id), id, "lastError")
  ELSE IF response.kind = "PDM_RESPONSE"
    THEN IF response.error # Null
           THEN sendErrorToPage(DeletePending(pg, id), id, response.error)
           ELSE sendResponseToPage(DeletePending(pg, id), id)
  ELSE sendErrorToPage(DeletePending(pg, id), id, "Invalid response from extension")

\* the callback forwardToBackground hands to chrome.runtime.sendMessage;
\* response is "lastError", "invalid", or the payload of a PDM_RESPONSE
sendMessageCallback(pg, id, response) ==
  IF ~pg.pendingRequests[id].present THEN pg
  ELSE IF response.kind = "lastError"
    THEN sendErrorToPage(DeletePending(pg, id), id, "lastError")
  ELSE IF response.kind = "PDM_RESPONSE"
    THEN IF response.error # Null
           THEN sendErrorToPage(DeletePending(pg, id), id, response.error)
           ELSE sendResponseToPage(DeletePending(pg, id), id)
  ELSE sendErrorToPage(DeletePending(pg, id), id, "Invalid response from extension")

\* handleBackgroundResponse for a PDM_RESPONSE that names messageId
handleBackgroundResponse(pg, id, error) ==
  IF ~pg.pendingRequests[id].present THEN pg
  ELSE IF error # Null
    THEN sendErrorToPage(DeletePending(pg, id), id, error)
    ELSE sendResponseToPage(DeletePending(pg, id), id)

\* the timer callback giving the request up without answering the page
relayTimeoutSilent(pg, id) ==
  [pg EXCEPT !.pendingRequests[id].timeout = Absent]

\* the callback of the timer forwardToBackground sets
relayTimeout(pg, id) ==
  IF pg.pendingRequests[id].present
    THEN [sendErrorToPage(pg, id, "Request timeout")
            EXCEPT !.pendingRequests[id].present = FALSE,
                   !.pendingRequests[id].timeout = Absent]
    ELSE [pg EXCEPT !.pendingRequests[id].timeout = Absent]

\* resolve or reject of the promise of a call; a settled promise stays as it is
SettleCall(call, error) ==
  IF call.state # "pending" THEN call
  ELSE IF error # Null THEN [call EXCEPT !.state = "rejected", !.error = error]
  ELSE [call EXCEPT !.state = "resolved"]

\* handleResponse of the call that minted messageId, on one message event
\* accepting a PDM_RESPONSE whatever its id
handleResponseOfAnyId(call, messageId, m) ==
  IF m.type = "PDM_RESPONSE"
    THEN SettleCall([call EXCEPT !.timeout = Absent, !.listener = FALSE], m.error)
    ELSE call

handleResponse(call, messageId, m) ==
  IF m.type = "PDM_RESPONSE" /\ m.id = messageId
    THEN SettleCall([call EXCEPT !.timeout = Absent, !.listener = FALSE], m.error)
    ELSE call

\* window.PDM._sendMessage
sendMessage(pg) ==
  [pg EXCEPT !.minted = pg.minted + 1,
             !.call[pg.minted + 1] = [state |-> "pending", error |-> Null,
                                      timeout |-> pg.clock + SHIM_TIMEOUT,
                                      listener |-> TRUE, mintedAt |-> pg.clock],
             !.window = @ \cup {[type |-> "PDM_REQUEST", id |-> pg.minted + 1,
                                 error |-> Null]}]

\* handlePageMessage of the content script
handlePageMessage(pg, m) ==
  IF m.type # "PDM_REQUEST" THEN pg ELSE forwardToBackground(pg, m.id)

PageStep(pg) ==
  /\ page' = pg
  /\ UNCHANGED <<now, sessionPassword, sessionInitialized, lastActivityTime, requests,
                 allowedOrigins, nm, sessionCache, local, session, nextId, lastResp,
                 hist, off, restoring, flight>>

\* the page calls a method of window.PDM
ShimCall ==
  /\ page.minted < MaxShimCalls
  /\ PageStep(sendMessage(page))

\* a message event of the window: the content script's listener and the
\* handleResponse of every call that still listens run on it
WindowMessage ==
  \E m \in page.window :
    PageStep([handlePageMessage(page, m)
                EXCEPT !.window = page.window \ {m},
                       !.call = [i \in ShimIds |->
                                   IF page.call[i].listener
                                     THEN handleResponse(page.call[i], i, m)
                                     ELSE page.call[i]]])

\* the background answers the sendMessage of a forwarded request, or the
\* message port closes without an answer
BackgroundResponses ==
  {[kind |-> "lastError", error |-> Null], [kind |-> "invalid", error |-> Null],
   [kind |-> "PDM_RESPONSE", error |-> Null], [kind |-> "PDM_RESPONSE", error |-> "E"]}

SendMessageAnswered ==
  \E id \in ShimIds, response \in BackgroundResponses :
    /\ page.pendingRequests[id].port = "open"
    /\ PageStep([sendMessageCallback(page, id, response)
                   EXCEPT !.pendingRequests[id].port = "closed"])

\* a PDM_RESPONSE reaches the content script's chrome.runtime.onMessage
BackgroundMessage ==
  \E id \in ShimIds, error \in {Null, "E"} :
    /\ page.pendingRequests[id].forwardedAt # Absent
    /\ PageStep(handleBackgroundResponse(page, id, error))

\* the 30 s timer of a forwarded request fires
RelayTimeout ==
  \E id \in ShimIds :
    /\ page.pendingRequests[id].timeout # Absent
    /\ page.pendingRequests[id].timeout <= page.clock
    /\ PageStep(relayTimeout(page, id))

\* the 30 s timer of a call of window.PDM fires
ShimTimeout ==
  \E id \in ShimIds :
    /\ page.call[id].timeout # Absent
    /\ page.call[id].timeout <= page.clock
    /\ PageStep([page EXCEPT !.call[id] =
                   SettleCall([@ EXCEPT !.timeout = Absent], "PDM request timeout")])

\* the times at which the timers that are set fire
Deadlines(pg) ==
  ({pg.call[i].timeout : i \in ShimIds}
     \cup {pg.pendingRequests[i].timeout : i \in ShimIds}) \ {Absent}

\* time passes: by TickMs, or up to the first timer that is set if that is
\* sooner; a timer that is due fires before time passes
Tick ==
  /\ page.clock < MaxClock
  /\ \A t \in Deadlines(page) : page.clock < t
  /\ PageStep([page EXCEPT !.clock = CHOOSE c \in Deadlines(page) \cup {page.clock + TickMs} :
                                       \A t \in Deadlines(page) \cup {page.clock + TickMs} :
                                         c <= t])

PageNext ==
  \/ ShimCall
  \/ WindowMessage
  \/ SendMessageAnswered
  \/ BackgroundMessage
  \/ RelayTimeout
  \/ ShimTimeout
  \/ Tick

SpecPage == Init /\ [][PageNext]_vars

(***************************************************************************)
(* Overlapping dispatches.  The listener starts handlePDMMessage for every *)
(* message without waiting for the one before, so the operations of the    *)
(* storage client interleave at their awaits.  An operation is followed    *)
(* from the failure of its request to the backend server (the server is    *)
(* unreachable for every operation but initialize): it is suspended at     *)
(* "persisting" (chrome.storage.local.set of pdm_demo_mode) and at "read"  *)
(* (chrome.storage.local.get of its list).  A get answers with the storage *)
(* as it is when the call is made.  listUserData and listPermissions are   *)
(* taken in one step.                                                      *)
(***************************************************************************)
DocumentOps == {"storeData", "deleteData"}
LedgerOps == {"grantPermission", "revokePermission"}
Area(op) == IF op \in DocumentOps THEN "pdm_demo_data" ELSE "pdm_permissions"

\* the payloads of the operations that overlap: one document payload, one
\* grant, deletes and revokes of identifiers handed out so far
OverlapData(op, w) ==
  CASE op = "storeData" -> RouterData("store_data")
    [] op = "deleteData" ->
         {[NoData EXCEPT !.documentId = d, !.collectionId = "col1"] : d \in 1..w.nextId}
    [] op = "grantPermission" ->
         {d \in RouterData("grant_permission") : d.documentId = 1}
    [] op = "revokePermission" ->
         {[NoData EXCEPT !.documentId = 1, !.collectionId = "col1",
                         !.appDid = "did:nil:app", !.permissionId = i] :
            i \in 1..w.nextId}

\* initialize() up to its chrome.storage.local.get(['pdm_demo_mode',
\* 'pdm_user_did']): the credentials are loaded, the get is made
initializeReads(w, f, password) ==
  Let(getNillionCredentials(w, password), LAMBDA g :
    IF g.err # Null THEN [w |-> g.w, f |-> f]
    ELSE IF g.ret = NoCredentials
      THEN [w |-> [g.w EXCEPT !.nm.credentials = g.ret], f |-> f]
    ELSE [w |-> [g.w EXCEPT !.nm.credentials = g.ret,
                            !.nm.userPrivateKey = g.ret.privateKey],
          f |-> [f EXCEPT !.initialize = [pc |-> "read",
                                          demo |-> g.w.local.pdm_demo_mode,
                                          did |-> g.w.local.pdm_user_did]]])

\* initialize() from the answer of the get to its end
initializeReturns(w, f, net) ==
  [w |-> IF f.initialize.demo
           THEN [w EXCEPT !.nm.demoMode = TRUE,
                          !.nm.userDid = IF f.initialize.did # Null
                                           THEN f.initialize.did
                                           ELSE DemoDid(w.nm.credentials)]
         ELSE IF net
           THEN [w EXCEPT !.nm.userDid = RealDid, !.local.pdm_user_did = RealDid]
         ELSE [w EXCEPT !.nm.demoMode = TRUE,
                        !.nm.userDid = DemoDid(w.nm.credentials),
                        !.local.pdm_demo_mode = TRUE,
                        !.local.pdm_user_did = DemoDid(w.nm.credentials)],
   f |-> [f EXCEPT !.initialize = NoInitialize]]

\* the operation makes the get of its list: the key is built from this.userDid
operationReads(w, f, s, op, data) ==
  [w |-> w,
   f |-> [f EXCEPT !.ops[s] = [op |-> op, pc |-> "read", key |-> w.nm.userDid,
                               read |-> w.local[Area(op)][w.nm.userDid],
                               data |-> data, id |-> Absent]]]

\* the operation is called and its request to the backend server fails (a
\* deleteData called in demo mode makes no request)
operationFails(w, f, s, op, data) ==
  IF op = "deleteData" /\ w.nm.demoMode THEN operationReads(w, f, s, op, data)
  ELSE IF op \in DocumentOps
    THEN [w |-> [w EXCEPT !.nm.demoMode = TRUE, !.local.pdm_demo_mode = TRUE],
          f |-> [f EXCEPT !.ops[s] = [NoFlight EXCEPT !.op = op, !.pc = "persisting",
                                                      !.data = data]]]
  ELSE operationReads([w EXCEPT !.nm.demoMode = TRUE], f, s, op, data)

\* operationList putting a new grant at the head of the ledger
operationListGrantFirst(o, id) ==
  CASE o.op = "storeData" ->
         Append(o.read,
                [dataId |-> IF o.data.dataId # Absent THEN o.data.dataId ELSE id,
                 collectionId |-> IF o.data.collectionId # Null
                                    THEN o.data.collectionId
                                    ELSE o.data.metadata.collectionId,
                 id |-> IF o.data.id # Absent THEN o.data.id ELSE id,
                 title |-> o.data.title])
    [] o.op = "deleteData" -> SelectItems(o.read, o.data.documentId)
    [] o.op = "grantPermission" ->
         <<[id |-> id, dataId |-> o.data.documentId,
            collectionId |-> o.data.collectionId, appDid |-> o.data.appDid,
            permissions |-> o.data.permissions]>> \o o.read
    [] o.op = "revokePermission" ->
         FilterPerms(o.read, o.data.documentId, o.data.collectionId, o.data.appDid,
                     o.data.permissionId)

\* the list the operation writes back: what it read, changed
operationList(o, id) ==
  CASE o.op = "storeData" ->
         Append(o.read,
                [dataId |-> IF o.data.dataId # Absent THEN o.data.dataId ELSE id,
                 collectionId |-> IF o.data.collectionId # Null
                                    THEN o.data.collectionId
                                    ELSE o.data.metadata.collectionId,
                 id |-> IF o.data.id # Absent THEN o.data.id ELSE id,
                 title |-> o.data.title])
    [] o.op = "deleteData" -> SelectItems(o.read, o.data.documentId)
    [] o.op = "grantPermission" ->
         Append(o.read,
                [id |-> id, dataId |-> o.data.documentId,
                 collectionId |-> o.data.collectionId, appDid |-> o.data.appDid,
                 permissions |-> o.data.permissions])
    [] o.op = "revokePermission" ->
         FilterPerms(o.read, o.data.documentId, o.data.collectionId, o.data.appDid,
                     o.data.permissionId)

\* the get has answered: the operation changes the list it read, writes it
\* back under its key and returns
operationWrites(w, f, s) ==
  Let(IF f.ops[s].op \in {"storeData", "grantPermission"} THEN w.nextId + 1 ELSE Absent,
      LAMBDA id :
        [w |-> [w EXCEPT !.nextId = IF id # Absent THEN id ELSE @,
                         !.local[Area(f.ops[s].op)][f.ops[s].key] =
                             operationList(f.ops[s], id)],
         f |-> [f EXCEPT !.ops[s] = NoFlight,
                         !.returned = IF id # Absent
                                        THEN @ \cup {<<f.ops[s].key, id>>} ELSE @],
         ret |-> id])

OverlapStep(r, resp) ==
  /\ SetWorld(r.w)
  /\ flight' = r.f
  /\ lastResp' = resp
  /\ UNCHANGED <<now, hist, off, page, restoring>>

OverlapStoreCredentials == StoreCredentialsWith({"demo123"})

InitializeReads ==
  /\ flight.initialize.pc = "idle"
  /\ OverlapStep(initializeReads(World, flight, "demo123"),
                 [NoResp EXCEPT !.action = "initialize", !.kind = "suspended"])

InitializeReturns ==
  \E net \in BOOLEAN :
    /\ flight.initialize.pc = "read"
    /\ OverlapStep(initializeReturns(World, flight, net),
                   [NoResp EXCEPT !.action = "initialize", !.kind = "ok", !.net = net])

OperationFails(ops, maxIds) ==
  \E s \in Slots, op \in ops :
    \E data \in OverlapData(op, World) :
      /\ flight.ops[s].op = "none"
      /\ \A t \in Slots : t < s => flight.ops[t].op # "none"
      /\ nm.userPrivateKey # Null
      /\ nm.userDid # Null
      /\ op \in {"storeData", "grantPermission"} =>
           nextId + Cardinality({t \in Slots : flight.ops[t].op
                                               \in {"storeData", "grantPermission"}})
             < maxIds
      /\ OverlapStep([w |-> operationFails(World, flight, s, op, data).w,
                      f |-> [operationFails(World, flight, s, op, data).f EXCEPT
                               !.targeted =
                                 IF op = "deleteData" THEN @ \cup {data.documentId}
                                 ELSE IF op = "revokePermission"
                                   THEN @ \cup {data.permissionId}
                                 ELSE @]],
                     [NoResp EXCEPT !.action = op, !.kind = "suspended", !.data = data])

OperationReads ==
  \E s \in Slots :
    /\ flight.ops[s].pc = "persisting"
    /\ OverlapStep(operationReads(World, flight, s, flight.ops[s].op, flight.ops[s].data),
                   [NoResp EXCEPT !.action = flight.ops[s].op, !.kind = "suspended",
                                  !.data = flight.ops[s].data])

OperationWrites ==
  \E s \in Slots :
    /\ flight.ops[s].pc = "read"
    /\ \E r \in {operationWrites(World, flight, s)} :
         OverlapStep(r, [NoResp EXCEPT !.action = flight.ops[s].op, !.kind = "ok",
                                       !.data = flight.ops[s].data, !.retId = r.ret])

OverlapListUserData ==
  /\ nm.userDid # Null
  /\ \E r \in {listUserData(World, FALSE)} :
       OverlapStep([w |-> r.w,
                    f |-> [flight EXCEPT !.migrated =
                             @ \/ r.w.local.pdm_demo_data # local.pdm_demo_data]],
                   [NoResp EXCEPT !.action = "listUserData",
                                  !.kind = IF r.err = Null THEN "ok" ELSE r.err,
                                  !.retList = IF r.err = Null THEN r.ret ELSE <<>>])

OverlapListPermissions ==
  /\ nm.userDid # Null
  /\ \E r \in {listPermissions(World, FALSE)} :
       OverlapStep([w |-> r.w, f |-> flight],
                   [NoResp EXCEPT !.action = "listPermissions",
                                  !.kind = IF r.err = Null THEN "ok" ELSE r.err,
                                  !.retList = IF r.err = Null THEN r.ret ELSE <<>>])

DocumentOperationFails == OperationFails(DocumentOps, MaxIds)
LedgerOperationFails == OperationFails(LedgerOps, MaxLedgerIds)

OverlapNext ==
  \/ OverlapStoreCredentials
  \/ InitializeReads
  \/ InitializeReturns
  \/ DocumentOperationFails
  \/ OperationReads
  \/ OperationWrites
  \/ OverlapListUserData

SpecOverlap == Init /\ [][OverlapNext]_vars

LedgerNext ==
  \/ OverlapStoreCredentials
  \/ InitializeReads
  \/ InitializeReturns
  \/ LedgerOperationFails
  \/ OperationWrites
  \/ OverlapListPermissions

SpecLedger == Init /\ [][LedgerNext]_vars

(***************************************************************************)
(* The origin specification: pages at two origins post PDM_REQUEST         *)
(* envelopes to their own window; the page chooses the envelope's origin   *)
(* field, the browser supplies the sender's URL                            *)
(***************************************************************************)
\* handlePageMessage: an envelope is forwarded when its origin field is present
forwards(declared) == declared # Null

\* forwardToBackground: the origin put in the payload of the PDM_MESSAGE
payloadOrigin(declared, pageOrigin) ==
  IF declared # Null THEN declared ELSE pageOrigin

\* the listener: request.payload?.origin || new URL(sender.url).origin
listenerOrigin(payload, senderOrigin) ==
  IF payload # Null THEN payload ELSE senderOrigin

\* a page at pageOrigin posts an envelope declaring an origin; the content
\* script forwards it and the listener answers, all in the same millisecond
PageRequest(action) ==
  \E pageOrigin \in Origins, declared \in Origins \cup {Null} :
    IF ~forwards(declared)
      THEN /\ lastResp' = [NoResp EXCEPT !.action = action, !.kind = "rejected",
                                         !.sender = "page",
                                         !.pageOrigin = pageOrigin]
           /\ UNCHANGED <<now, hist, off, page, restoring, flight>>
           /\ SetWorld(World)
      ELSE \E r \in {onMessage(World, hist, now, "page",
                               listenerOrigin(payloadOrigin(declared, pageOrigin),
                                              pageOrigin),
                               action, NoData, TRUE)} :
             /\ SetWorld(r.w)
             /\ lastResp' = [f \in DOMAIN r.resp \cup {"sender", "data", "pageOrigin"} |->
                               IF f = "sender" THEN "page"
                               ELSE IF f = "data" THEN NoData
                               ELSE IF f = "pageOrigin" THEN pageOrigin
                               ELSE r.resp[f]]
             /\ hist' = NextHist(World, hist, now, r.resp)
             /\ UNCHANGED <<now, off, page, restoring, flight>>

OriginPing == PageRequest("ping")

OriginNext == OriginPing

SpecOrigin == Init /\ [][OriginNext]_vars

(***************************************************************************)
(* Claims                                                                  *)
(***************************************************************************)
Answered == lastResp.kind \notin {"none", "dropped", "RateLimited"}

\* C1: once the session has been locked (lock action, inactivity expiry or a
\* failed unlock), every routed action other than unlock, lock and is_unlocked
\* fails with Locked or SessionExpired and does no storage-client or ledger
\* work, until an unlock succeeds.
C1_LockGate ==
  (/\ Answered
   /\ lastResp.action \in GatedActions
   /\ lastResp.lockedBy \in {"lock", "expiry", "failed_unlock"}
   /\ ~lastResp.wasUnlocked)
  => (/\ lastResp.kind \in {"Locked", "SessionExpired", "NotInitialized"}
      /\ ~lastResp.work
      /\ lastResp.calls = {})

\* C2: an unlock whose passphrase differs from the one the stored credential
\* blob was encrypted under fails with "Failed to unlock" and leaves the
\* session locked, whatever happened before in the process.
C2_BadPassphraseFails ==
  (Answered /\ lastResp.action = "unlock" /\ lastResp.badPass)
  => (lastResp.kind = "FailedToUnlock" /\ ~sessionInitialized)

\* C3: a routed request from a connected origin for an action outside the
\* origin's allowed actions is rejected with NotAllowed and not dispatched
\* (stated where the session is unlocked and live, so that no lock gate
\* answers in place of the admission).
C3_ActionOutsideAllowedSetRejected ==
  (/\ Answered
   /\ lastResp.action \in GatedActions \ {"connect", "disconnect"}
   /\ lastResp.hadConfig
   /\ ~lastResp.inAllowed
   /\ lastResp.wasUnlocked
   /\ ~lastResp.wasExpired)
  => (lastResp.kind = "NotAllowed" /\ ~lastResp.work /\ lastResp.calls = {})

\* a response that carries a document, a document list, the user identity or
\* the capability grants
ReturnsUserData ==
  /\ lastResp.kind = "ok"
  /\ \/ lastResp.action \in {"retrieve_data", "get_user_data", "list_permissions"}
     \/ lastResp.action = "get_identity" /\ lastResp.did # Null

\* C4: no document, document list, user identity or capability grant is
\* returned unless at dispatch the session is unlocked and the requesting
\* origin has an origin config (connected and not since disconnected).
C4_NoDataWithoutSessionAndOrigin ==
  ReturnsUserData => (lastResp.wasUnlocked /\ lastResp.hadConfig)

\* C5: once more than 15 minutes have passed since lastActivityTime in an
\* unlocked session no data action is served until a new unlock succeeds,
\* whatever arrives in between, and the first gated action after the deadline
\* locks the session and returns SessionExpired.
C5_InactivityDestroysSession ==
  /\ (lastResp.action \in DataActions /\ lastResp.afterDeadline)
       => lastResp.kind # "ok"
  /\ (/\ Answered
      /\ lastResp.action \in GatedActions
      /\ lastResp.wasUnlocked
      /\ lastResp.wasExpired)
       => (lastResp.kind = "SessionExpired" /\ ~sessionInitialized)

\* C6: a request refused with RateLimited leaves the session untouched:
\* lastActivityTime, the locked/unlocked state and the restore token in
\* chrome.storage.session are unchanged by it.
C6_RateLimitedLeavesSession ==
  [][lastResp'.kind = "RateLimited"
       => /\ lastActivityTime' = lastActivityTime
          /\ sessionInitialized' = sessionInitialized
          /\ sessionPassword' = sessionPassword
          /\ session' = session]_vars

\* a rate-limited request met an unlocked session whose last activity is older
\* than the request
C6_Witness ==
  /\ lastResp.kind = "RateLimited"
  /\ sessionInitialized
  /\ session.pdm_session_active
  /\ now > lastActivityTime

\* the timestamps of a bucket that lie in [t - windowMs, t]
InClosedWindow(timestamps, t, windowMs) ==
  {i \in DOMAIN timestamps : timestamps[i] >= t - windowMs /\ timestamps[i] <= t}

\* C7: for every origin config, the number of timestamps of the origin's
\* rate bucket within [now - windowMs, now] never exceeds the maxRequests of
\* that config, a rateLimit supplied at connect included.
C7_BucketWithinConfiguredLimit ==
  \A o \in Origins :
    allowedOrigins[o].present
      => Cardinality(InClosedWindow(requests[o], now,
                                    allowedOrigins[o].rateLimit.windowMs))
           <= allowedOrigins[o].rateLimit.maxRequests

\* the number of timestamps younger than the window at time t
Young(timestamps, t) ==
  Cardinality({i \in DOMAIN timestamps : t - timestamps[i] < WINDOW_MS})

\* C8: the sliding window.  A request is refused, and the bucket left as it
\* is, exactly when MAX_REQUESTS timestamps are younger than the window;
\* otherwise it is admitted and the bucket becomes the young timestamps, in
\* their order, followed by now -- so the 51st request of a burst is refused,
\* and a request that finds no young timestamp leaves exactly one, its own.
C8_SlidingWindow ==
  [][lastResp'.origin # Null =>
       LET o == lastResp'.origin
           old == requests[o]
           n == Young(old, now')
       IN IF n >= MAX_REQUESTS
            THEN lastResp'.kind = "RateLimited" /\ requests' = requests
            ELSE /\ lastResp'.kind # "RateLimited"
                 /\ Len(requests'[o]) = n + 1
                 /\ requests'[o][n + 1] = now'
                 /\ \A i \in 1..n : requests'[o][i] = old[Len(old) - n + i]
                 /\ \A i \in 1..n : now' - requests'[o][i] < WINDOW_MS]_vars

\* the 51st request inside one window was refused
C8_Witness ==
  /\ lastResp.kind = "RateLimited"
  /\ Len(requests[lastResp.origin]) = MAX_REQUESTS
  /\ now - requests[lastResp.origin][1] < WINDOW_MS

\* C9: once the storage client is in Fallback mode (demoMode), no later
\* operation of the process issues a remote-storage call.
C9_NoRemoteCallInFallback ==
  [][nm.demoMode => lastResp'.calls = {}]_vars

\* C10: whenever an operation moves the storage client into Fallback mode the
\* flag pdm_demo_mode is persisted by the time the operation returns:
\* demoMode in memory implies the persisted flag.
C10_FallbackFlagPersisted ==
  nm.demoMode => local.pdm_demo_mode

\* the dataId of every record kept in the local store
LocalIds ==
  UNION {{local.pdm_demo_data[d][i].dataId : i \in DOMAIN local.pdm_demo_data[d]} :
           d \in Dids}

C12_StoreReadRoundTrip ==
  [][(/\ lastResp.action = "storeData"
      /\ lastResp.kind = "ok"
      /\ lastResp'.action = "retrieveData"
      /\ lastResp'.data.documentId = lastResp.retId
      /\ lastResp'.data.collectionId = lastResp.data.metadata.collectionId)
       => /\ lastResp'.kind = "ok"
          /\ lastResp'.retDoc.title = lastResp.data.title
          /\ lastResp.data.dataId # Absent
               => lastResp'.retDoc.dataId = lastResp.data.dataId
          /\ lastResp.data.id # Absent => lastResp'.retDoc.id = lastResp.data.id
          /\ lastResp.data.collectionId # Null
               => lastResp'.retDoc.collectionId = lastResp.data.collectionId]_vars

\* whether a ledger entry is a grant of the tuple and permissions of a request
GrantOf(entry, data) ==
  /\ entry.dataId = data.documentId
  /\ entry.collectionId = data.collectionId
  /\ entry.appDid = data.appDid
  /\ entry.permissions = data.permissions

\* C13: after a successful grant, a list of grants includes that grant, under
\* an id that occurs exactly once in the list, whether the remote service
\* answered or failed for the grant (stated for the list that follows the
\* grant and is answered from the ledger the client keeps).
C13_GrantIsListed ==
  [][(/\ lastResp.action = "grantPermission"
      /\ lastResp.kind = "ok"
      /\ lastResp'.action = "listPermissions"
      /\ (lastResp'.calls = {} \/ ~lastResp'.net))
       => /\ lastResp'.kind = "ok"
          /\ \E i \in DOMAIN lastResp'.retList :
               /\ GrantOf(lastResp'.retList[i], lastResp.data)
               /\ Cardinality({j \in DOMAIN lastResp'.retList :
                     lastResp'.retList[j].id = lastResp'.retList[i].id}) = 1]_vars

\* whether a revoke request names a ledger entry: by its id when the request
\* has a permissionId, by (documentId, collectionId, appDid) otherwise
Revokes(data, entry) ==
  IF data.permissionId # Absent
    THEN entry.id = data.permissionId
    ELSE /\ entry.dataId = data.documentId
         /\ entry.collectionId = data.collectionId
         /\ entry.appDid = data.appDid

\* C14: a revocation that completes removes from the ledger the entry with
\* the given grant id, or, without a grant id, every entry of the given
\* tuple, and leaves every other entry, in order.
C14_RevokeRemovesNamedEntries ==
  [][(/\ lastResp'.action = "revokePermission"
      /\ lastResp'.kind = "ok")
       => local'.pdm_permissions[nm.userDid]
            = SelectSeq(local.pdm_permissions[nm.userDid],
                        LAMBDA e : ~Revokes(lastResp'.data, e))]_vars

\* C15: once a grant and then a revoke naming it have completed, a list of
\* grants does not contain the revoked grant and shows the grants in
\* insertion order (ids are handed out in increasing order), whichever of the
\* calls reached the remote service.
C15_RevokedGrantNotListed ==
  [][(/\ lastResp.action = "revokePermission"
      /\ lastResp.kind = "ok"
      /\ lastResp'.action = "listPermissions"
      /\ lastResp'.kind = "ok")
       => /\ \A i \in DOMAIN lastResp'.retList :
               ~Revokes(lastResp.data, lastResp'.retList[i])
          /\ \A i, j \in DOMAIN lastResp'.retList :
               i < j => lastResp'.retList[i].id < lastResp'.retList[j].id]_vars

\* the collection identifier a request of the storage client carries
RequestCollection(resp) ==
  IF resp.action = "storeData" THEN resp.data.metadata.collectionId
  ELSE resp.data.collectionId

\* C16: store, read, delete, grant and revoke with an empty or missing
\* collectionId return InvalidArgument and neither call the remote service
\* nor change what is stored (stated for an initialised client).
C16_EmptyCollectionRejected ==
  [][(/\ lastResp'.action \in {"storeData", "retrieveData", "deleteData",
                               "grantPermission", "revokePermission"}
      /\ RequestCollection(lastResp') = Null
      /\ nm.userPrivateKey # Null)
       => /\ lastResp'.kind = "InvalidArgument"
          /\ lastResp'.calls = {}
          /\ local' = local]_vars

\* the permission names of a grant
PermissionNames(entry) == {entry.permissions[i] : i \in DOMAIN entry.permissions}

\* C17: every grant of the ledger has a non-empty permission set drawn from
\* read, write and execute.
C17_LedgerPermissionsValid ==
  \A d \in Dids : \A i \in DOMAIN local.pdm_permissions[d] :
    /\ local.pdm_permissions[d][i].permissions # <<>>
    /\ PermissionNames(local.pdm_permissions[d][i]) \subseteq {"read", "write", "execute"}

\* C18: once a document of the local store is deleted, a list of grants that
\* follows returns no grant over that document.
C18_DeleteTombstonesGrants ==
  [][(/\ lastResp.action = "deleteData"
      /\ lastResp.kind = "ok"
      /\ lastResp.hadDoc
      /\ lastResp'.action = "listPermissions"
      /\ lastResp'.kind = "ok")
       => \A i \in DOMAIN lastResp'.retList :
            lastResp'.retList[i].dataId # lastResp.data.documentId]_vars

\* the setups whose createDocument call is in progress
Creating == {p \in Setups : off.pc[p] = "createDocument"}

\* C19: at most one creation of the offscreen document is in progress; a call
\* made while a setup is pending shares that setup and starts none; the
\* promise slot never holds a settled setup, so a later call can retry.
C19_OneSetupAtATime ==
  /\ Cardinality(Creating) <= 1
  /\ off.offscreenPromise # 0 => off.state[off.offscreenPromise] = "pending"
  /\ \A c \in Calls :
       off.call[c].pc = "setup" /\ off.state[off.call[c].on] = "pending"
         => off.call[c].on = off.offscreenPromise

\* C20: once a setup of the offscreen document has timed out, a call of
\* callOffscreenApi made afterwards is rejected at once and starts no setup.
C20_TimeoutFailsFast ==
  [][\A c \in Calls :
       (/\ \E p \in Setups : off.state[p] = "timed out"
        /\ off.call[c].pc = "idle"
        /\ off'.call[c].pc # "idle")
         => /\ off'.call[c].pc = "rejected"
            /\ off'.made = off.made]_vars

\* C21: when the timer of a setup fires, the setup fails and the offscreen
\* document is torn down: no document and no readyListener of that setup
\* are left.
C21_TimeoutTearsDown ==
  [][\A p \in Setups :
       (off.state[p] = "pending" /\ off'.state[p] = "timed out")
         => /\ off'.doc = "none"
            /\ ~off'.readyListener[p]]_vars

\* C22: for every request the content script forwarded, at most one
\* PDM_RESPONSE is posted to the page; the pending request is deleted exactly
\* when that response is posted, and afterwards no answer, runtime error or
\* timer posts again or brings the entry back.
C22_OneWinner ==
  [][\A id \in ShimIds :
       /\ page'.pendingRequests[id].posted <= 1
       /\ page'.pendingRequests[id].forwardedAt # Absent
            => (page'.pendingRequests[id].present
                  <=> page'.pendingRequests[id].posted = 0)
       /\ (page.pendingRequests[id].forwardedAt # Absent
             /\ ~page.pendingRequests[id].present)
            => /\ ~page'.pendingRequests[id].present
               /\ page'.pendingRequests[id].posted = page.pendingRequests[id].posted]_vars

\* a request was answered once although both its answer and its expiry came
C22_Witness ==
  \E id \in ShimIds :
    /\ page.pendingRequests[id].posted = 1
    /\ page.pendingRequests[id].port = "closed"
    /\ page.pendingRequests[id].timeout = Absent
    /\ page.clock >= page.pendingRequests[id].forwardedAt + REQUEST_TIMEOUT

\* C23: a forwarded request is pending only while its 30 s timer is set, and
\* once 30 s have passed since it was forwarded its PDM_RESPONSE has been
\* posted and its entry is gone, whether or not the background answered.
C23_AnsweredWithin30s ==
  \A id \in ShimIds :
    page.pendingRequests[id].forwardedAt # Absent
      => /\ page.pendingRequests[id].present
              => page.pendingRequests[id].timeout
                   = page.pendingRequests[id].forwardedAt + REQUEST_TIMEOUT
         /\ page.clock > page.pendingRequests[id].forwardedAt + REQUEST_TIMEOUT
              => /\ page.pendingRequests[id].posted = 1
                 /\ ~page.pendingRequests[id].present

\* the background never answered and the page was answered by the timer
C23_Witness ==
  \E id \in ShimIds :
    /\ page.pendingRequests[id].port = "open"
    /\ page.pendingRequests[id].posted = 1
    /\ page.clock > page.pendingRequests[id].forwardedAt + REQUEST_TIMEOUT
    /\ [type |-> "PDM_RESPONSE", id |-> id, error |-> "Request timeout"] \in page.window

\* the call with this id settles in this step
Settles(id) == page.call[id].state = "pending" /\ page'.call[id].state # "pending"

\* C24: a call of window.PDM settles once: a settled call keeps its outcome;
\* a call settles only on a PDM_RESPONSE event carrying the id it minted,
\* resolving or rejecting as that response says, or on its own 30 s timer,
\* and then it rejects with "PDM request timeout"; no call is pending more
\* than 30 s after it was made.
C24_ShimSettlesOnce ==
  [][\A id \in ShimIds :
       /\ page.call[id].state \in {"resolved", "rejected"}
            => /\ page'.call[id].state = page.call[id].state
               /\ page'.call[id].error = page.call[id].error
       /\ Settles(id)
            => \/ \E m \in page.window \ page'.window :
                    /\ m.type = "PDM_RESPONSE"
                    /\ m.id = id
                    /\ page'.call[id].error = m.error
                    /\ page'.call[id].state
                         = IF m.error = Null THEN "resolved" ELSE "rejected"
               \/ /\ page'.window = page.window
                  /\ page.clock = page.call[id].mintedAt + SHIM_TIMEOUT
                  /\ page'.call[id].state = "rejected"
                  /\ page'.call[id].error = "PDM request timeout"
       /\ page'.call[id].state = "pending"
            => page'.clock <= page'.call[id].mintedAt + SHIM_TIMEOUT]_vars

\* two calls were pending together; one was answered, the other timed out
C24_Witness ==
  \E a, b \in ShimIds :
    /\ page.call[a].state = "resolved"
    /\ page.call[b].state = "rejected"
    /\ page.call[b].error = "PDM request timeout"
    /\ page.call[a].mintedAt = page.call[b].mintedAt

\* C25: every PDM_MESSAGE that reaches the listener is answered with a
\* response envelope, whatever its sender and outcome.
C25_EveryMessageAnswered ==
  lastResp.action # Null => lastResp.kind # "dropped"

\* C26: a message whose sender has no URL or is an extension page other than
\* the popup is not dispatched, takes nothing from the rate-limit budget and
\* leaves the session activity and every other state as it was; a message
\* from the popup is not turned away for its sender.
C26_SenderValidation ==
  [][/\ lastResp'.sender \in {"no_url", "extension_page"}
          => /\ lastResp'.kind = "dropped"
             /\ lastResp'.calls = {}
             /\ ~lastResp'.work
             /\ requests' = requests
             /\ lastActivityTime' = lastActivityTime
             /\ UNCHANGED <<sessionPassword, sessionInitialized, allowedOrigins, nm,
                            sessionCache, local, session, nextId>>
     /\ lastResp'.sender = "popup" => lastResp'.kind # "dropped"]_vars

\* a message from another extension page met an unlocked session whose origin
\* had spent budget, some time after the last activity
C26_Witness ==
  /\ lastResp.sender = "extension_page"
  /\ sessionInitialized
  /\ lastResp.origin \in Origins
  /\ requests[lastResp.origin] # <<>>
  /\ now > lastActivityTime

\* C27: a first connect that names no requestedActions and no rateLimit
\* stores the actions ping, get_identity, store_data and retrieve_data and
\* the rate limit of 50 requests per 60 s; every connect answers with
\* exactly the allowed actions it stored.
C27_ConnectDefaults ==
  (lastResp.action = "connect" /\ lastResp.kind = "ok")
    => /\ lastResp.allowedActions = allowedOrigins[lastResp.origin].allowedActions
       /\ (/\ ~lastResp.hadConfig
           /\ ~lastResp.data.hasRequestedActions
           /\ ~lastResp.data.hasRateLimit)
            => /\ allowedOrigins[lastResp.origin].allowedActions
                    = {"ping", "get_identity", "store_data", "retrieve_data"}
               /\ allowedOrigins[lastResp.origin].rateLimit
                    = [maxRequests |-> 50, windowMs |-> 60000]

\* stored is a restore token whose last activity is at most 15 minutes before t
FreshToken(stored, t) ==
  /\ stored.pdm_session_active
  /\ stored.pdm_session_password # Null
  /\ stored.pdm_last_activity # Absent
  /\ t - stored.pdm_last_activity <= SESSION_TIMEOUT

\* C28: when the restoreSessionState() of a start has read a restore token at
\* most 15 minutes old, the session is unlocked when it returns; and with such a
\* token in the session storage no message that arrives after the start is
\* answered as locked because of the start.
C28_RestartKeepsUnlocked ==
  [][/\ (restoring.pending /\ FreshToken(restoring.session, now)
            /\ lastResp'.action = "restore")
          => sessionInitialized'
     /\ (FreshToken(session, now') /\ hist.lockedBy = "start"
            /\ lastResp'.action = "get_user_data")
          => lastResp'.kind # "Locked"]_vars

C30_TokenOnlyWhileUnlocked ==
  (~sessionInitialized /\ ~restoring.pending) => session = EmptySession

\* C31: a message is_unlocked leaves sessionInitialized, lastActivityTime and
\* the restore token in the session storage as they were.
C31_IsUnlockedHasNoEffect ==
  [][lastResp'.action = "is_unlocked"
       => /\ sessionInitialized' = sessionInitialized
          /\ lastActivityTime' = lastActivityTime
          /\ session' = session]_vars

\* C32: once a userDid is persisted under pdm_user_did, the initialize() of a
\* later process (same credentials) ends with that userDid, whether the backend
\* server answers or not.
C32_DidStableAcrossRestarts ==
  [][(/\ local.pdm_user_did # Null
      /\ nm.userDid = Null
      /\ lastResp'.action = "initialize"
      /\ lastResp'.kind = "ok")
       => nm'.userDid = local.pdm_user_did]_vars

\* C33: listDataLocally adopts the list of another userDid at most once: once
\* it has done so, a listUserData moves no list from one key to another, and
\* returns the list of the current userDid as it is (empty when it is empty).
C33_MigratesOnce ==
  [][(lastResp'.action = "listUserData" /\ flight.migrated)
       => /\ local'.pdm_demo_data = local.pdm_demo_data
          /\ lastResp'.retList = local.pdm_demo_data[nm.userDid]]_vars

\* the documents and grants written by storeData and grantPermission calls
\* that returned and that no deleteData or revokePermission was started for,
\* each with the key it was written under
LiveWrites == {g \in flight.returned : g[2] \notin flight.targeted}

\* C34: when no grantPermission or revokePermission is suspended, every grant
\* whose call returned and that no revoke was started for is in the ledger
\* kept under the key it was written to.
C34_NoLostLedgerUpdate ==
  (\A s \in Slots : flight.ops[s].op = "none")
    => \A g \in LiveWrites :
         \E i \in DOMAIN local.pdm_permissions[g[1]] :
           local.pdm_permissions[g[1]][i].id = g[2]

\* C39: when no storeData or deleteData is suspended, every document whose
\* storeData returned its identifier and that no delete was started for is in
\* one of the local lists.
C39_NoLostDocument ==
  (\A s \in Slots : flight.ops[s].op = "none")
    => \A g \in LiveWrites :
         \E d \in Dids : \E i \in DOMAIN local.pdm_demo_data[d] :
           local.pdm_demo_data[d][i].dataId = g[2]

\* the step is the dispatch of a message that passed the sender validation and
\* the rate limiter
Admitted ==
  /\ lastResp'.action \in Actions
  /\ lastResp'.kind \notin {"dropped", "RateLimited"}

C37_LockNotUndone ==
  [][(restoring.pending /\ hist.lockedBy = "lock" /\ lastResp'.action = "restore")
       => /\ ~sessionInitialized'
          /\ session'.pdm_session_password = Null]_vars

\* C38: between messages, sessionInitialized holds exactly when the storage
\* client is initialized (what is_unlocked reports as unlocked and as
\* nillionReady).
C38_FlagAgreesWithClient ==
  sessionInitialized <=> isInitialized(World)

\* C40: a PDM_MESSAGE forwarded for a page is admitted and counted under the
\* origin of the page that sent it, and leaves the request log of every other
\* origin as it was.
C40_AccountedToSendingPage ==
  [][(lastResp'.sender = "page" /\ lastResp'.kind # "rejected")
       => /\ lastResp'.origin = lastResp'.pageOrigin
          /\ \A o \in Origins \ {lastResp'.pageOrigin} :
               requests'[o] = requests[o]]_vars

=============================================================================
